---- MODULE Spec2Model ----
(***************************************************************************)
(* Log ingestion and distribution pipeline of the external logging system: *)
(* the file tailer and the store of lib/logStorage.js, the distribution    *)
(* hub of lib/logStreamer.js and the wiring of server.js.                  *)
(*                                                                         *)
(* Text is a sequence of one-character strings.  JavaScript values that    *)
(* reach the hub are records with a "type" field, so that a log entry      *)
(* (type "object") and a bare string (type "string") can both be passed.   *)
(***************************************************************************)
EXTENDS Integers, Sequences, FiniteSets, TLC

\* ------------------------------------------------------------------ bounds
MaxWrites == 2       \* writes appended to one watched file (tailer runs)
MaxStreams == 2      \* read streams open on one file at the same time
MaxRecords == 3      \* log entries created (ids handed out)
PipeWrites == 1      \* writes appended to one watched file (pipeline runs)
PipeStreams == 1     \* read streams open on one file (pipeline runs)
PipeRecords == 1     \* log entries created (pipeline runs)
IdRecords == 2       \* log entries created (runs with repeated ids)
QueryRecords == 2    \* log entries created (query runs)
MaxPage == 2         \* largest limit and offset of a paged query
SummaryRecords == 3  \* log entries created (summary runs)
DayLength == 5       \* readings of the clock that fall on one day
CoreRecords == 2     \* log entries created (runs of the whole core)
WatchWrites == 1     \* writes appended to one file (runs with two files)
WatchStreams == 1    \* read streams open on one file (runs with two files)
HubRecords == 1      \* log entries created (hub runs)
MaxQueries == 1      \* request_recent queries in flight at the same time
OrderRecords == 2    \* log entries created (runs about the order of lines)
MaxWatchers == 3     \* watchers created (runs with repeated starts)

\* --------------------------------------------------------------- universe
NL == "\n"
\* what one write of an external process appends: the start of a line, or
\* the rest of a line with its line break
TailChunks == {<<"A">>, <<"B", NL>>}
PipeChunks == {<<"A", NL>>}         \* whole lines, for the pipeline runs
OldChar == "o"                     \* bytes present before watching began
WhiteSpace == {" ", "\t", "\r", NL}

LOG_FILES_TO_WATCH ==
  << <<"", "home", "xoom000", "GoPublic", "camping", "logs", "app.log">> >>

\* two of the configured files, for the runs about the start of watching
TwoLogFiles ==
  << <<"", "home", "xoom000", "GoPublic", "33tools-staging", "logs",
       "server.log">>,
     <<"", "home", "xoom000", "GoPublic", "camping", "logs", "app.log">> >>

Range(s) == {s[i] : i \in 1..Len(s)}
Paths == Range(LOG_FILES_TO_WATCH)
Sockets == {"s1"}
HubSockets == {"s1", "s2"}         \* the viewers of the hub runs
RoomCategories == {"GENERAL"}      \* categories viewers subscribe to
RoomLevels == {"ERROR"}            \* levels viewers subscribe to

Min(a, b) == IF a < b THEN a ELSE b
Max(a, b) == IF a > b THEN a ELSE b

\* ----------------------------------------------------- string primitives
\* String.prototype.split(sep) for a one-character separator
RECURSIVE Split(_, _)
Split(s, sep) ==
  IF \A i \in 1..Len(s) : s[i] # sep THEN <<s>>
  ELSE LET k == CHOOSE i \in 1..Len(s) :
                  s[i] = sep /\ \A j \in 1..(i - 1) : s[j] # sep
       IN <<SubSeq(s, 1, k - 1)>> \o Split(SubSeq(s, k + 1, Len(s)), sep)

\* String.prototype.trim()
RECURSIVE Trim(_)
Trim(s) ==
  IF s = <<>> THEN s
  ELSE IF s[1] \in WhiteSpace THEN Trim(Tail(s))
  ELSE IF s[Len(s)] \in WhiteSpace THEN Trim(SubSeq(s, 1, Len(s) - 1))
  ELSE s

Upper == <<"A","B","C","D","E","F","G","H","I","J","K","L","M",
           "N","O","P","Q","R","S","T","U","V","W","X","Y","Z">>
Lower == <<"a","b","c","d","e","f","g","h","i","j","k","l","m",
           "n","o","p","q","r","s","t","u","v","w","x","y","z">>
Digits == {"0","1","2","3","4","5","6","7","8","9"}

LowerChar(c) ==
  IF \E i \in 1..26 : Upper[i] = c
  THEN Lower[CHOOSE i \in 1..26 : Upper[i] = c] ELSE c

UpperChar(c) ==
  IF \E i \in 1..26 : Lower[i] = c
  THEN Upper[CHOOSE i \in 1..26 : Lower[i] = c] ELSE c

\* String.prototype.toLowerCase()
ToLowerCase(s) == [i \in 1..Len(s) |-> LowerChar(s[i])]

\* String.prototype.includes(sub)
Includes(s, sub) ==
  \E i \in 0..(Len(s) - Len(sub)) : SubSeq(s, i + 1, i + Len(sub)) = sub

\* String.prototype.toUpperCase()
ToUpperCase(s) == [i \in 1..Len(s) |-> UpperChar(s[i])]

\* String.prototype.startsWith(pre)
StartsWith(s, pre) == Len(s) >= Len(pre) /\ SubSeq(s, 1, Len(pre)) = pre

\* String.prototype.replace(sub, '') with a string pattern: the first
\* occurrence of sub is removed
ReplaceFirst(s, sub) ==
  IF ~Includes(s, sub) THEN s
  ELSE LET i == CHOOSE k \in 0..(Len(s) - Len(sub)) :
                  /\ SubSeq(s, k + 1, k + Len(sub)) = sub
                  /\ \A j \in 0..(k - 1) : SubSeq(s, j + 1, j + Len(sub)) # sub
       IN SubSeq(s, 1, i) \o SubSeq(s, i + Len(sub) + 1, Len(s))

\* Array.prototype.includes(x)
ArrIncludes(arr, x) == \E i \in 1..Len(arr) : arr[i] = x

\* ------------------------------------------------------ JavaScript values
Null == [type |-> "null"]
JsString(chars) == [type |-> "string", str |-> chars]
\* new Date().toISOString() at logical time n; ISO strings order like n
IsoTime(n) == [type |-> "iso", t |-> n]
\* a timestamp copied verbatim from a log line
TextTime(chars) == [type |-> "text", str |-> chars]
\* the data payloads of the model: null, or an object {"k": <text>}
DataObject(chars) == [type |-> "object", k |-> chars]

\* JSON.stringify(data) for the data payloads of the model
JsonStringify(d) ==
  <<"{", "\"", "k", "\"", ":", "\"">> \o d.k \o <<"\"", "}">>

\* ------------------------------------------------ lib/logStorage.js parser
\* extractProjectName(filePath); a path is its split('/') segment list
ExtractProjectName(filePath) ==
  LET pathParts == filePath
      hits == {i \in 1..Len(pathParts) : pathParts[i] = "GoPublic"}
      gopublicIndex == IF hits = {} THEN 0
                       ELSE CHOOSE i \in hits : \A j \in hits : i <= j
  IN IF gopublicIndex >= 1 /\ gopublicIndex + 1 <= Len(pathParts)
        /\ pathParts[gopublicIndex + 1] # ""
     THEN pathParts[gopublicIndex + 1]
     ELSE IF Len(pathParts) >= 2 THEN pathParts[Len(pathParts) - 1] ELSE "."

\* the JSON documents of the model, each with its text and the fields
\* JSON.parse gives it.  A field that is absent is "", <<>> or Null (falsy).
JsonDocuments ==
  {[text |->
      <<"{", "}">>,
    timestamp |-> Null, level |-> "", category |-> "",
    message |-> <<>>, msg |-> <<>>, data |-> Null],
   [text |->
      <<"{", "\"", "l", "e", "v", "e", "l", "\"", ":", "\"", "W", "A", "R",
        "N", "\"", ",", "\"", "m", "s", "g", "\"", ":", "\"", "m", "\"", "}">>,
    timestamp |-> Null, level |-> "WARN", category |-> "",
    message |-> <<>>, msg |-> <<"m">>, data |-> Null],
   [text |->
      <<"{", "\"", "l", "e", "v", "e", "l", "\"", ":", "\"", "t", "r", "a",
        "c", "e", "\"", ",", "\"", "m", "e", "s", "s", "a", "g", "e", "\"",
        ":", "\"", "m", "\"", "}">>,
    timestamp |-> Null, level |-> "trace", category |-> "",
    message |-> <<"m">>, msg |-> <<>>, data |-> Null],
   [text |->
      <<"{", "\"", "t", "i", "m", "e", "s", "t", "a", "m", "p", "\"", ":",
        "\"", "t", "\"", ",", "\"", "c", "a", "t", "e", "g", "o", "r", "y",
        "\"", ":", "\"", "A", "P", "I", "\"", ",", "\"", "m", "e", "s",
        "s", "a", "g", "e", "\"", ":", "\"", "m", "\"", ",", "\"", "d",
        "a", "t", "a", "\"", ":", "{", "\"", "k", "\"", ":", "\"", "b",
        "\"", "}", "}">>,
    timestamp |-> TextTime(<<"t">>), level |-> "", category |-> "API",
    message |-> <<"m">>, msg |-> <<>>, data |-> DataObject(<<"b">>)]}

\* JSON.parse(logLine), tabulated over the documents of the model: white
\* space around a document is skipped, every other text is not JSON
JsonParse(logLine) ==
  LET hits == {d \in JsonDocuments : d.text = Trim(logLine)}
  IN IF hits # {}
     THEN LET d == CHOOSE x \in hits : TRUE
          IN [ok |-> TRUE, timestamp |-> d.timestamp, level |-> d.level,
              category |-> d.category, message |-> d.message,
              msg |-> d.msg, data |-> d.data]
     ELSE [ok |-> FALSE]

\* /\[(\d{4}-\d{2}-\d{2}[T ]\d{2}:\d{2}:\d{2}[^\]]*)\]/ at 1-based index i
TimestampAt(s, i) ==
  /\ i + 20 <= Len(s)
  /\ s[i] = "["
  /\ \A k \in {1, 2, 3, 4, 6, 7, 9, 10, 12, 13, 15, 16, 18, 19} :
       s[i + k] \in Digits
  /\ s[i + 5] = "-" /\ s[i + 8] = "-"
  /\ s[i + 11] \in {"T", " "}
  /\ s[i + 14] = ":" /\ s[i + 17] = ":"
  /\ \E j \in (i + 20)..Len(s) : s[j] = "]"

\* logLine.match(timestampRegex): [found, whole (match[0]), group (match[1])]
TimestampMatch(s) ==
  LET starts == {i \in 1..Len(s) : TimestampAt(s, i)}
  IN IF starts = {} THEN [found |-> FALSE, whole |-> <<>>, group |-> <<>>]
     ELSE LET i == CHOOSE a \in starts : \A b \in starts : a <= b
              j == CHOOSE c \in (i + 20)..Len(s) :
                     s[c] = "]" /\ \A d \in (i + 20)..(c - 1) : s[d] # "]"
          IN [found |-> TRUE, whole |-> SubSeq(s, i, j),
              group |-> SubSeq(s, i + 1, j - 1)]

LevelNames == {<<"D","E","B","U","G">>, <<"I","N","F","O">>, <<"W","A","R","N">>,
               <<"E","R","R","O","R">>, <<"F","A","T","A","L">>}

\* /\[(DEBUG|INFO|WARN|ERROR|FATAL)\]/i at 1-based index i
LevelAt(s, i) ==
  /\ s[i] = "["
  /\ \E n \in LevelNames :
       /\ i + Len(n) + 1 <= Len(s)
       /\ ToUpperCase(SubSeq(s, i + 1, i + Len(n))) = n
       /\ s[i + Len(n) + 1] = "]"

\* logLine.match(levelRegex)
LevelMatch(s) ==
  LET starts == {i \in 1..Len(s) : LevelAt(s, i)}
  IN IF starts = {} THEN [found |-> FALSE, whole |-> <<>>, group |-> <<>>]
     ELSE LET i == CHOOSE a \in starts : \A b \in starts : a <= b
              j == CHOOSE c \in (i + 1)..Len(s) :
                     s[c] = "]" /\ \A d \in (i + 1)..(c - 1) : s[d] # "]"
          IN [found |-> TRUE, whole |-> SubSeq(s, i, j),
              group |-> SubSeq(s, i + 1, j - 1)]

LevelString(chars) ==
  CASE chars = <<"D","E","B","U","G">> -> "DEBUG"
    [] chars = <<"I","N","F","O">> -> "INFO"
    [] chars = <<"W","A","R","N">> -> "WARN"
    [] chars = <<"E","R","R","O","R">> -> "ERROR"
    [] chars = <<"F","A","T","A","L">> -> "FATAL"

\* variant: the rule of the API words is tried before the rule of errors
InferCategoryApiFirst(message, level) ==
  LET m == ToLowerCase(message)
  IN IF Includes(m, <<"a","p","i">>)
        \/ Includes(m, <<"r","e","q","u","e","s","t">>) THEN "API"
     ELSE IF Includes(m, <<"e","r","r","o","r">>) \/ level = "ERROR"
       THEN "ERROR"
     ELSE IF Includes(m, <<"a","u","t","h">>) \/ Includes(m, <<"l","o","g","i","n">>)
       THEN "AUTH"
     ELSE IF Includes(m, <<"d","a","t","a","b","a","s","e">>)
             \/ Includes(m, <<"d","b">>) THEN "DATABASE"
     ELSE "SYSTEM"

\* the category rules of parseLogFormat, first match wins
InferCategory(message, level) ==
  LET m == ToLowerCase(message)
  IN IF Includes(m, <<"e","r","r","o","r">>) \/ level = "ERROR" THEN "ERROR"
     ELSE IF Includes(m, <<"a","u","t","h">>) \/ Includes(m, <<"l","o","g","i","n">>)
       THEN "AUTH"
     ELSE IF Includes(m, <<"a","p","i">>)
             \/ Includes(m, <<"r","e","q","u","e","s","t">>) THEN "API"
     ELSE IF Includes(m, <<"d","a","t","a","b","a","s","e">>)
             \/ Includes(m, <<"d","b">>) THEN "DATABASE"
     ELSE "SYSTEM"

\* parseLogFormat(logLine, projectName, filePath); id and the clock reading
\* are passed in (Date.now(), Math.random())
ParseLogFormat(logLine, projectName, id, clock) ==
  LET timestamp == IsoTime(clock)
      parsed == JsonParse(logLine)
      timestampMatch == TimestampMatch(logLine)
      levelMatch == LevelMatch(logLine)
      message1 == IF timestampMatch.found
                  THEN Trim(ReplaceFirst(logLine, timestampMatch.whole))
                  ELSE logLine
      level == IF levelMatch.found
               THEN LevelString(ToUpperCase(levelMatch.group)) ELSE "INFO"
      message == IF levelMatch.found
                 THEN Trim(ReplaceFirst(message1, levelMatch.whole))
                 ELSE message1
  IN IF StartsWith(logLine, <<"{">>) /\ parsed.ok
     THEN [type |-> "object", id |-> id,
           timestamp |-> IF parsed.timestamp # Null THEN parsed.timestamp
                         ELSE timestamp,
           level |-> IF parsed.level # "" THEN parsed.level ELSE "INFO",
           category |-> IF parsed.category # "" THEN parsed.category
                        ELSE "SYSTEM",
           message |-> IF parsed.message # <<>> THEN parsed.message
                       ELSE IF parsed.msg # <<>> THEN parsed.msg ELSE logLine,
           data |-> parsed.data,
           source |-> projectName, environment |-> "production"]
     ELSE [type |-> "object", id |-> id,
           timestamp |-> IF timestampMatch.found
                         THEN TextTime(timestampMatch.group) ELSE timestamp,
           level |-> level,
           category |-> InferCategory(message, level),
           message |-> message,
           data |-> Null,
           source |-> projectName, environment |-> "production"]

\* ------------------------------------------------- lib/logStreamer.js hub
\* a filter object; a field that is absent is the empty sequence (falsy)
EmptyFilters ==
  [categories |-> <<>>, levels |-> <<>>, sources |-> <<>>, search |-> <<>>]

FilterChoices ==
  {EmptyFilters,
   [EmptyFilters EXCEPT !.categories = <<"API">>],
   [EmptyFilters EXCEPT !.search = <<"a">>]}

\* the filters of the hub runs: also two allow-lists, a search term in
\* upper case together with an allow-list, and a blank search term
HubFilters ==
  FilterChoices \cup
  {[EmptyFilters EXCEPT !.categories = <<"API">>, !.search = <<"A">>],
   [EmptyFilters EXCEPT !.levels = <<"ERROR">>, !.sources = <<"web">>],
   [EmptyFilters EXCEPT !.search = <<" ">>]}

IsObject(v) == v.type = "object"

\* variant: a blank search term is a search term
SearchSet(filters) == filters.search # <<>>

\* filters.search && filters.search.trim(): is there a search term to
\* look for?
SearchActive(filters) == Trim(filters.search) # <<>>

\* shouldSendToClient(logEntry, client): "true", "false", or "throw" when
\* the evaluation raises a TypeError
ShouldSendToClient(logEntry, client) ==
  LET filters == client.filters
  IN IF filters = EmptyFilters THEN "true"
     ELSE IF /\ Len(filters.categories) > 0
             /\ ~(IsObject(logEntry)
                  /\ ArrIncludes(filters.categories, logEntry.category))
       THEN "false"
     ELSE IF /\ Len(filters.levels) > 0
             /\ ~(IsObject(logEntry)
                  /\ ArrIncludes(filters.levels, logEntry.level))
       THEN "false"
     ELSE IF /\ Len(filters.sources) > 0
             /\ ~(IsObject(logEntry)
                  /\ ArrIncludes(filters.sources, logEntry.source))
       THEN "false"
     ELSE IF SearchActive(filters)
       THEN IF ~IsObject(logEntry) THEN "throw"   \* undefined.toLowerCase()
            ELSE LET searchTerm == ToLowerCase(filters.search)
                     message == ToLowerCase(logEntry.message)
                     dataString ==
                       IF logEntry.data # Null
                       THEN ToLowerCase(JsonStringify(logEntry.data))
                       ELSE <<>>
                 IN IF ~Includes(message, searchTerm)
                       /\ ~Includes(dataString, searchTerm)
                    THEN "false" ELSE "true"
     ELSE "true"

\* variant: both rooms are named by the level
RoomNameByLevel(kind, logEntry, field) ==
  <<kind, IF logEntry.type = "object" THEN logEntry.level ELSE "undefined">>

\* `category_${logEntry.category}` / `level_${logEntry.level}`: a property
\* that a string does not have reads as undefined
RoomName(kind, logEntry, field) ==
  <<kind, IF IsObject(logEntry) THEN logEntry[field] ELSE "undefined">>

\* the per-client loop of broadcast over the clients Map, in insertion
\* order, from index i: the filtered_log emits made, and whether the loop
\* was left by an exception
RECURSIVE FilteredEmits(_, _, _)
FilteredEmits(logEntry, cl, i) ==
  IF i > Len(cl) THEN [emits |-> <<>>, threw |-> FALSE]
  ELSE LET verdict == ShouldSendToClient(logEntry, cl[i])
       IN IF verdict = "throw" THEN [emits |-> <<>>, threw |-> TRUE]
          ELSE LET rest == FilteredEmits(logEntry, cl, i + 1)
                   mine == IF verdict = "true"
                           THEN <<[event |-> "filtered_log",
                                   target |-> <<"socket", cl[i].id>>,
                                   payload |-> logEntry]>>
                           ELSE <<>>
               IN [emits |-> mine \o rest.emits, threw |-> rest.threw]

\* variant: the filtered events are emitted before the other three
BroadcastEmitsFilteredFirst(logEntry, cl) ==
  LET loop == FilteredEmits(logEntry, cl, 1)
  IN [emits |->
        loop.emits \o
        <<[event |-> "new_log", target |-> <<"all", "">>,
           payload |-> logEntry],
          [event |-> "category_log",
           target |-> RoomName("category", logEntry, "category"),
           payload |-> logEntry],
          [event |-> "level_log",
           target |-> RoomName("level", logEntry, "level"),
           payload |-> logEntry]>>,
      threw |-> loop.threw]

\* broadcast(logEntry): the emits in call order and whether it threw
BroadcastEmits(logEntry, cl) ==
  LET loop == FilteredEmits(logEntry, cl, 1)
  IN [emits |->
        <<[event |-> "new_log", target |-> <<"all", "">>,
           payload |-> logEntry],
          [event |-> "category_log",
           target |-> RoomName("category", logEntry, "category"),
           payload |-> logEntry],
          [event |-> "level_log",
           target |-> RoomName("level", logEntry, "level"),
           payload |-> logEntry]>> \o loop.emits,
      threw |-> loop.threw]

\* ------------------------------------------------------------------ state
VARIABLES
  initialized,    \* logStorage.initialized
  logs,           \* rows of the logs table, in insertion order
  mirror,         \* lines appended to the per-category backup files
  pendingStores,  \* INSERTs handed to the database, callback not yet run
  nextId,         \* source of fresh ids (uuid v4, file_<time>_<random>)
  fileWatchers,   \* paths with a chokidar watcher in logStorage.fileWatchers
  filePositions,  \* logStorage.filePositions: path -> offset
  streams,        \* path -> read streams created and not yet ended
  fileData,       \* path -> bytes of the file on disk
  sockets,        \* connected socket.io sockets
  clients,        \* logStreamer.clients, a Map in insertion order
  rooms,          \* socket.io room memberships <<socket, room>>
  stats,          \* logStreamer.stats
  welcome,        \* socket -> stats sent with its 'connected' event
  emitted,        \* emits made by broadcast, in call order
  responses,      \* HTTP responses of POST /api/logs
  pendingQueries, \* request_recent queries handed to the database
  replies,        \* socket -> the last event sent to it alone by
                  \* socket.emit in answer to request_recent
  apiReply,       \* the last HTTP response of the GET endpoints
  storeErrors,    \* the failures store() has logged: id and error code
  pendingSummary, \* the getSummary() call under way: the index of its next
                  \* SELECT and the counts read so far
  started,        \* the listen callback has run startFileWatching
  shuttingDown,   \* a termination signal has called logStorage.close()
  appended,       \* path -> number of writes appended so far
  truncated,      \* path -> the file was truncated at some time
  watchedFrom,    \* path -> file size when watching began
  handed,         \* lines passed to parseAndStoreLogLine, in call order
  broadcastFor,   \* ids of entries an ingestion path invoked broadcast for
  lastOp,         \* the tailer operation that ran last: its name and path,
                  \* the offset it used and the file size it ran at
  dbState,        \* the sqlite handle: "open", "closing" once db.close() is
                  \* called, "closed" when its callback has run
  serverClosing,  \* a signal handler has called server.close()
  exited,         \* process.exit(0) has run
  monitors,       \* the chokidar watchers ever created: a serial number,
                  \* the path and whether close() was called on it
  destroyed       \* logStreamer.destroy() has removed the listeners of io

storeVars == <<initialized, logs, mirror, pendingStores, nextId>>
tailVars == <<fileWatchers, filePositions, streams>>
fileVars == <<fileData, appended, truncated>>
hubVars == <<sockets, clients, rooms, stats, welcome>>
outVars == <<emitted, responses, broadcastFor>>
lifeVars == <<started, shuttingDown, watchedFrom>>
readVars == <<handed>>
procVars == <<dbState, serverClosing, exited, monitors, destroyed>>
queryVars == <<pendingQueries, replies, apiReply, storeErrors,
               pendingSummary>>
vars == <<storeVars, tailVars, fileVars, hubVars, outVars, lifeVars,
          readVars, queryVars, lastOp, procVars>>

InitialContents == {<<>>, <<OldChar>>}
EmptyMap == [x \in {} |-> 0]

\* no getSummary() call is under way
NoSummary ==
  [step |-> 0 - 1, total |-> 0, errors |-> 0, warnings |-> 0, today |-> 0]

\* no GET request has been answered yet
NoReply == [op |-> "", status |-> 0, error |-> "", body |-> <<>>]

\* variant: the storage never reports that it is not initialized
NeverNotInitialized == FALSE

\* if (!this.initialized) throw new Error('Log storage not initialized'),
\* the first statement of store, query, getSummary and getCategoryCounts
NotInitialized == ~initialized

InitWith(P, rows) ==
  /\ initialized = FALSE
  /\ logs = rows
  /\ mirror = <<>>
  /\ pendingStores = {}
  /\ nextId = 1
  /\ fileWatchers = {}
  /\ filePositions = EmptyMap
  /\ streams = [f \in P |-> <<>>]
  /\ fileData \in [P -> InitialContents]
  /\ sockets = {}
  /\ clients = <<>>
  /\ rooms = {}
  /\ stats = [totalClients |-> 0, messagesSent |-> 0]
  /\ welcome = EmptyMap
  /\ emitted = <<>>
  /\ responses = {}
  /\ pendingQueries = {}
  /\ replies = EmptyMap
  /\ apiReply = NoReply
  /\ storeErrors = {}
  /\ pendingSummary = NoSummary
  /\ started = FALSE
  /\ shuttingDown = FALSE
  /\ appended = [f \in P |-> 0]
  /\ truncated = [f \in P |-> FALSE]
  /\ watchedFrom = EmptyMap
  /\ handed = <<>>
  /\ broadcastFor = {}
  /\ lastOp = [op |-> "init", path |-> <<>>, arg |-> 0, size |-> 0]
  /\ dbState = "open"
  /\ serverClosing = FALSE
  /\ exited = FALSE
  /\ monitors = {}
  /\ destroyed = FALSE

\* the process starts on a new database file
InitFor(P) == InitWith(P, <<>>)

Init == InitFor(Paths)

\* ---------------------------------------------------------- environment
\* logStorage.init: the database is open and the tables exist
InitDone ==
  /\ ~initialized
  /\ initialized' = TRUE
  /\ UNCHANGED lastOp
  /\ UNCHANGED <<procVars, queryVars, logs, mirror, pendingStores, nextId, tailVars, fileVars,
                 hubVars, outVars, lifeVars, readVars>>

\* an external process appends bytes to a log file
AppendBytes(f, bytes, budget) ==
  /\ appended[f] < budget
  /\ fileData' = [fileData EXCEPT ![f] = @ \o bytes]
  /\ appended' = [appended EXCEPT ![f] = @ + 1]
  /\ UNCHANGED lastOp
  /\ UNCHANGED <<procVars, queryVars, truncated, storeVars, tailVars, hubVars, outVars, lifeVars,
                 readVars>>

\* an external process empties a log file (rotation by truncation)
Truncate(f) ==
  /\ Len(fileData[f]) > 0
  /\ fileData' = [fileData EXCEPT ![f] = <<>>]
  /\ truncated' = [truncated EXCEPT ![f] = TRUE]
  /\ UNCHANGED lastOp
  /\ UNCHANGED <<procVars, queryVars, appended, storeVars, tailVars, hubVars, outVars, lifeVars,
                 readVars>>

\* ------------------------------------------------ lib/logStorage.js tailer
MapSet(m, k, v) == [x \in DOMAIN m \cup {k} |-> IF x = k THEN v ELSE m[x]]
RemoveAt(s, i) == SubSeq(s, 1, i - 1) \o SubSeq(s, i + 1, Len(s))

WatchOutcomes == {"ok", "statFails", "watchFails"}

\* variant: tailing starts at the beginning of the file
InitialPositionFromStart(size) == 0

\* this.filePositions.set(filePath, stats.size) of startFileWatching
InitialPosition(size) == size

\* variant: the first failure ends the loop over the paths
RECURSIVE AttemptedUntilFailure(_, _)
AttemptedUntilFailure(logFilePaths, outcome) ==
  IF logFilePaths = <<>> THEN {}
  ELSE IF outcome[Head(logFilePaths)] # "ok" THEN {Head(logFilePaths)}
  ELSE {Head(logFilePaths)}
         \cup AttemptedUntilFailure(Tail(logFilePaths), outcome)

\* the paths whose try block is entered: the catch is inside the loop, so
\* a failure for one path does not end the loop
Attempted(logFilePaths, outcome) == Range(logFilePaths)

\* the watchers one call of startFileWatching creates: one for each
\* entry of logFilePaths whose try block reaches chokidar.watch and gets
\* past it, numbered after the watchers created before
CreatedWatchers(logFilePaths, outcome) ==
  {[n |-> Cardinality(monitors) + i, path |-> logFilePaths[i],
    closed |-> FALSE] :
     i \in {k \in 1..Len(logFilePaths) :
              /\ logFilePaths[k] \in Attempted(logFilePaths, outcome)
              /\ outcome[logFilePaths[k]] = "ok"}}

\* startFileWatching(logFilePaths, streamCallback).  outcome[f] says where
\* the try block of path f ends: at its end, at statSync (or the file
\* creation before it), or at chokidar.watch.  fileWatchers.set(filePath,
\* watcher) replaces the watcher the Map had for the path.
StartWatching(logFilePaths, outcome) ==
  LET tried == Attempted(logFilePaths, outcome)
      positioned == {f \in tried : outcome[f] \in {"ok", "watchFails"}}
      watched == {f \in tried : outcome[f] = "ok"}
  IN /\ started' = TRUE
     /\ filePositions' = [f \in DOMAIN filePositions \cup positioned |->
                            IF f \in positioned
                            THEN InitialPosition(Len(fileData[f]))
                            ELSE filePositions[f]]
     /\ fileWatchers' = fileWatchers \cup watched
     /\ monitors' = monitors \cup CreatedWatchers(logFilePaths, outcome)
     /\ watchedFrom' = [f \in watched |-> Len(fileData[f])]
     /\ lastOp' = [op |-> "start", path |-> <<>>, arg |-> 0, size |-> 0]
     /\ UNCHANGED <<dbState, serverClosing, exited, destroyed, queryVars,
                    streams, shuttingDown, storeVars, fileVars, hubVars,
                    outVars, readVars>>

\* startFileWatching(LOG_FILES_TO_WATCH, streamFileLogsTosDashboard) as
\* server.js calls it: once, from the listen callback
StartFileWatching(logFilePaths, outcome) ==
  /\ ~started
  /\ ~shuttingDown
  /\ StartWatching(logFilePaths, outcome)

\* this.filePositions.get(filePath) || 0
LastPosition(f) == IF f \in DOMAIN filePositions THEN filePositions[f] ELSE 0

\* variant: only a file that shrank is skipped
FileHasShrunk(size, lastPosition) == size < lastPosition

\* the early return of processFileChanges
FileHasNotGrown(size, lastPosition) == size <= lastPosition

\* the watcher the Map fileWatchers holds for a path: the one created
\* last for it
HeldWatchers ==
  {m \in monitors :
     /\ m.path \in fileWatchers
     /\ \A o \in monitors : o.path = m.path => o.n <= m.n}

\* a watcher of the path is open, so that a change of the file runs its
\* 'change' handler
Notifies(f) == \E m \in monitors : m.path = f /\ ~m.closed

\* processFileChanges(filePath, streamCallback), run by the watcher's
\* 'change' handler: stat, compare, create the read stream
ProcessFileChanges(f, maxStreams) ==
  LET size == Len(fileData[f])
      lastPosition == LastPosition(f)
  IN /\ Notifies(f)
     /\ IF FileHasNotGrown(size, lastPosition)
        THEN /\ lastOp' = [op |-> "changeNoop", path |-> f,
                          arg |-> lastPosition, size |-> size]
             /\ UNCHANGED streams
        ELSE /\ Len(streams[f]) < maxStreams
             /\ streams' = [streams EXCEPT ![f] =
                  Append(@, [start |-> lastPosition, size |-> size,
                             phase |-> "open"])]
             /\ lastOp' = [op |-> "changeRead", path |-> f,
                          arg |-> lastPosition, size |-> size]
     /\ UNCHANGED <<procVars, queryVars, fileWatchers, filePositions, storeVars, fileVars,
                    hubVars, outVars, lifeVars, readVars>>

\* the bytes a stream created with {start, end} delivers: both bounds are
\* inclusive, and the file is read when the stream runs
StreamBytes(data, start, end) == SubSeq(data, start + 1, Min(end + 1, Len(data)))

\* lines.pop(): the lines before the last fragment
CompleteLines(buffer) ==
  LET lines == Split(buffer, NL) IN SubSeq(lines, 1, Len(lines) - 1)

\* 1-based file offset of the line break that ends the k-th complete line
\* of a chunk read from offset start
RECURSIVE LineEnd(_, _, _)
LineEnd(lines, start, k) ==
  IF k = 0 THEN start ELSE LineEnd(lines, start, k - 1) + Len(lines[k]) + 1

\* the 'data' handler of processFileChanges for the chunk of stream i of
\* file f; a stream whose range holds no bytes delivers no chunk.  Every
\* non-blank complete line goes through parseAndStoreLogLine up to its
\* await: parse, then store() throws (not initialized) or queues the INSERT.
StreamData(f, i, maxRecords) ==
  LET st == streams[f][i]
      chunk == StreamBytes(fileData[f], st.start, st.size)
      buffer == <<>> \o chunk
      lines == CompleteLines(buffer)
      kept == SelectSeq([k \in 1..Len(lines) |-> k],
                        LAMBDA k : Trim(lines[k]) # <<>>)
      projectName == ExtractProjectName(f)
      entries == [j \in 1..Len(kept) |->
                    ParseLogFormat(lines[kept[j]], projectName,
                                   nextId + j - 1, nextId + j - 1)]
  IN /\ i \in 1..Len(streams[f])
     /\ st.phase = "open"
     /\ nextId + Len(kept) - 1 <= maxRecords
     /\ streams' = [streams EXCEPT ![f][i].phase = "drained"]
     /\ nextId' = nextId + Len(kept)
     /\ pendingStores' =
          IF ~NotInitialized
          THEN pendingStores \cup
                 {[entry |-> entries[j], via |-> "file"] : j \in 1..Len(kept)}
          ELSE pendingStores
     /\ handed' = handed \o
          [j \in 1..Len(kept) |->
             [path |-> f, line |-> lines[kept[j]],
              end |-> LineEnd(lines, st.start, kept[j])]]
     /\ lastOp' = [op |-> "data", path |-> f, arg |-> Len(kept),
                   size |-> Len(fileData[f])]
     /\ UNCHANGED <<procVars, queryVars, initialized, logs, mirror, fileWatchers, filePositions,
                    fileVars, hubVars, outVars, lifeVars>>

\* variant: the size is observed again when the read has ended
EndPositionReobserved(st, currentSize) == currentSize

\* the offset the 'end' handler records for a stream
EndPosition(st, currentSize) == st.size

\* the 'end' handler of processFileChanges for stream i of file f
StreamEnd(f, i) ==
  /\ i \in 1..Len(streams[f])
  /\ streams[f][i].phase = "drained"
  /\ filePositions' =
       MapSet(filePositions, f, EndPosition(streams[f][i], Len(fileData[f])))
  /\ streams' = [streams EXCEPT ![f] = RemoveAt(@, i)]
  /\ lastOp' = [op |-> "end", path |-> f, arg |-> streams[f][i].size,
                size |-> Len(fileData[f])]
  /\ UNCHANGED <<procVars, queryVars, fileWatchers, storeVars, fileVars, hubVars, outVars,
                 lifeVars, readVars>>

\* variant: the offsets survive the stop
PositionsKeptAfterStop == filePositions

\* this.filePositions.clear() of stopFileWatching
PositionsAfterStop == EmptyMap

\* stopFileWatching(): close every watcher, clear both maps
StopWatching ==
  /\ shuttingDown' = TRUE
  /\ fileWatchers' = {}
  /\ monitors' = {IF m \in HeldWatchers THEN [m EXCEPT !.closed = TRUE]
                  ELSE m : m \in monitors}
  /\ filePositions' = PositionsAfterStop
  /\ lastOp' = [op |-> "stop", path |-> <<>>,
                arg |-> IF lastOp.op = "stop" THEN 1 ELSE 0, size |-> 0]
  /\ UNCHANGED <<destroyed, queryVars, streams, started, watchedFrom,
                 storeVars, fileVars, hubVars, outVars, readVars>>

StopFileWatching ==
  /\ StopWatching
  /\ UNCHANGED <<dbState, serverClosing, exited>>

\* the SIGTERM and SIGINT handlers of server.js: logStorage.close(), which
\* is stopFileWatching() and then db.close(callback), then
\* server.close(callback)
Shutdown ==
  /\ StopWatching
  /\ dbState' = IF dbState = "open" THEN "closing" ELSE dbState
  /\ serverClosing' = TRUE
  /\ UNCHANGED exited

\* the callback of db.close(): the handle is closed once the statements
\* handed to it before have completed
DbClosed ==
  /\ dbState = "closing"
  /\ pendingStores = {}
  /\ dbState' = "closed"
  /\ UNCHANGED <<serverClosing, exited, monitors, destroyed, queryVars,
                 storeVars, tailVars, fileVars, hubVars, outVars, lifeVars,
                 readVars, lastOp>>

\* the callback of server.close(), which runs when no connection is left:
\* process.exit(0)
ServerClosed ==
  /\ serverClosing
  /\ ~exited
  /\ sockets = {}
  /\ exited' = TRUE
  /\ UNCHANGED <<dbState, serverClosing, monitors, destroyed, queryVars,
                 storeVars, tailVars, fileVars, hubVars, outVars, lifeVars,
                 readVars, lastOp>>

\* ------------------------------------------------- lib/logStorage.js store
\* a number held in a column, written with the digits of its decimal form
JsNumber(digits) == [type |-> "number", digits |-> digits]

\* the column timestamp is declared DATETIME, which gives it NUMERIC
\* affinity: a text that is a well-formed integer is stored as that
\* integer and read back as a number, any other value is kept as it is
DatetimeColumn(ts) ==
  IF ts.type = "text" /\ ts.str # <<>> /\ Range(ts.str) \subseteq Digits
  THEN JsNumber(ts.str)
  ELSE ts

\* the parameter list of the INSERT in store(logEntry), as the columns of
\* logs hold it
StoreParams(logEntry) ==
  [id |-> logEntry.id, timestamp |-> DatetimeColumn(logEntry.timestamp),
   level |-> logEntry.level, category |-> logEntry.category,
   message |-> logEntry.message,
   data |-> IF logEntry.data # Null
            THEN JsString(JsonStringify(logEntry.data)) ELSE Null,
   source |-> logEntry.source, environment |-> logEntry.environment]

StoredIds == {logs[i].id : i \in 1..Len(logs)}

\* saveToFile(logEntry): `${timestamp} [${level}] ${message}\n`
MirrorLine(logEntry) ==
  [category |-> logEntry.category, timestamp |-> logEntry.timestamp,
   level |-> logEntry.level, message |-> logEntry.message]

\* JSON.parse(row.data) for the text JsonStringify makes
ParseDataText(chars) == DataObject(SubSeq(chars, 7, Len(chars) - 2))

\* the order of the timestamp column: ISO strings of the run order like
\* their logical time; the timestamps copied from log lines are older
\* and an integer sorts below every text
TimestampRank(ts) ==
  IF ts.type = "iso" THEN ts.t ELSE IF ts.type = "number" THEN 0 - 1 ELSE 0

\* variant: the rows come in the order they were inserted
RECURSIVE OrderAsInserted(_)
OrderAsInserted(idx) ==
  IF idx = {} THEN <<>>
  ELSE LET first == CHOOSE i \in idx : \A j \in idx : i <= j
       IN <<first>> \o OrderAsInserted(idx \ {first})

\* ORDER BY timestamp DESC of the rows at the indexes idx of logs, as a
\* sequence of indexes
RECURSIVE OrderDesc(_)
OrderDesc(idx) ==
  IF idx = {} THEN <<>>
  ELSE LET first == CHOOSE i \in idx : \A j \in idx :
                      \/ TimestampRank(logs[i].timestamp)
                           > TimestampRank(logs[j].timestamp)
                      \/ /\ TimestampRank(logs[i].timestamp)
                             = TimestampRank(logs[j].timestamp)
                         /\ i <= j
       IN <<first>> \o OrderDesc(idx \ {first})

\* text LIKE pattern of SQLite: % stands for any run of characters, _ for
\* any one character, and letters match without regard to case
RECURSIVE Like(_, _)
Like(text, pattern) ==
  IF pattern = <<>> THEN text = <<>>
  ELSE IF Head(pattern) = "%"
  THEN \/ Like(text, Tail(pattern))
       \/ text # <<>> /\ Like(Tail(text), pattern)
  ELSE /\ text # <<>>
       /\ \/ Head(pattern) = "_"
          \/ LowerChar(Head(pattern)) = LowerChar(Head(text))
       /\ Like(Tail(text), Tail(pattern))

\* the search term, as it is written, is part of the message or of the
\* data text, letters compared without regard to case
SearchHitsLiteral(row, search) ==
  \/ Includes(ToLowerCase(row.message), ToLowerCase(search))
  \/ /\ row.data # Null
     /\ Includes(ToLowerCase(row.data.str), ToLowerCase(search))

\* message LIKE ? OR data LIKE ? with the parameter `%${search}%`; a NULL
\* data is like nothing
SearchHits(row, search) ==
  LET pattern == <<"%">> \o search \o <<"%">>
  IN \/ Like(row.message, pattern)
     \/ row.data # Null /\ Like(row.data.str, pattern)

\* the field of a filters object, or the falsy value when it has none
FilterField(filters, name, absent) ==
  IF name \in DOMAIN filters THEN filters[name] ELSE absent

\* query(filters): WHERE, ORDER BY timestamp DESC, LIMIT, OFFSET, then the
\* data column parsed back.  An absent filter is "" / Null / 0 (falsy).
\* (OFFSET is only defined here together with LIMIT.)
Query(filters) ==
  LET source == FilterField(filters, "source", "")
      search == FilterField(filters, "search", <<>>)
      offset == FilterField(filters, "offset", 0)
      hits == {i \in 1..Len(logs) :
                 /\ filters.category # "" => logs[i].category = filters.category
                 /\ filters.level # "" => logs[i].level = filters.level
                 /\ source # "" => logs[i].source = source
                 /\ filters.since # Null =>
                      TimestampRank(logs[i].timestamp)
                        >= TimestampRank(filters.since)
                 /\ search # <<>> => SearchHits(logs[i], search)}
      ordered == OrderDesc(hits)
      limited == IF filters.limit # 0
                 THEN SubSeq(ordered, Min(offset, Len(ordered)) + 1,
                             Min(offset + filters.limit, Len(ordered)))
                 ELSE ordered
  IN [k \in 1..Len(limited) |->
        [logs[limited[k]] EXCEPT
           !.data = IF @ # Null THEN ParseDataText(@.str) ELSE Null]]

\* COUNT(*) of the rows of a category and a level, "" standing for any
CountRows(category, level) ==
  Cardinality({i \in 1..Len(logs) :
                 /\ category # "" => logs[i].category = category
                 /\ level # "" => logs[i].level = level})

\* date(timestamp): the day of a timestamp.  A day has DayLength readings
\* of the clock; the dates written in the inputs of the model are of a
\* day before the run, and an integer is taken for a Julian day number
DateOf(ts) ==
  IF ts.type = "iso" THEN ts.t \div DayLength
  ELSE IF ts.type = "number" THEN 0 - 1000
  ELSE 0 - 100

\* variant: every category is listed
RECURSIVE AllCategories(_, _)
AllCategories(categories, n) ==
  IF categories = {} THEN <<>>
  ELSE LET c == CHOOSE x \in categories :
                  \A y \in categories : CountRows(x, "") >= CountRows(y, "")
       IN <<[category |-> c, count |-> CountRows(c, "")]>>
            \o AllCategories(categories \ {c}, n)

\* SELECT category, COUNT(*) ... GROUP BY category ORDER BY count DESC
\* LIMIT n
RECURSIVE TopCategories(_, _)
TopCategories(categories, n) ==
  IF categories = {} \/ n = 0 THEN <<>>
  ELSE LET c == CHOOSE x \in categories :
                  \A y \in categories : CountRows(x, "") >= CountRows(y, "")
       IN <<[category |-> c, count |-> CountRows(c, "")]>>
            \o TopCategories(categories \ {c}, n - 1)

\* the result of the SELECT of index step of getSummary(), run when the
\* clock reads now
SummaryQuery(step, now) ==
  IF step = 0 THEN CountRows("", "")
  ELSE IF step = 1 THEN CountRows("", "ERROR")
  ELSE IF step = 2 THEN CountRows("", "WARN")
  ELSE IF step = 3
  THEN Cardinality({i \in 1..Len(logs) :
                      DateOf(logs[i].timestamp) = DateOf(IsoTime(now))})
  ELSE TopCategories({logs[i].category : i \in 1..Len(logs)}, 10)

\* getCategoryCounts(): one row per category with its counts
GetCategoryCounts ==
  {[category |-> c,
    total |-> CountRows(c, ""),
    errors |-> CountRows(c, "ERROR"),
    warnings |-> CountRows(c, "WARN")] :
     c \in {logs[i].category : i \in 1..Len(logs)}}

\* the query strings of GET /api/logs: none, or a category
LogsQueries == {"", "API"}

\* a GET endpoint of server.js: the storage call throws when the storage
\* is not initialized or rejects when the database fails (err), which
\* the catch answers with 500; else the result is sent with 200
ApiGet(op, result, err) ==
  /\ apiReply' =
       IF NotInitialized
       THEN [op |-> op, status |-> 500,
             error |-> "Log storage not initialized", body |-> <<>>]
       ELSE IF err
       THEN [op |-> op, status |-> 500, error |-> "SQLITE_ERROR",
             body |-> <<>>]
       ELSE [op |-> op, status |-> 200, error |-> "", body |-> result]
  /\ UNCHANGED lastOp
  /\ UNCHANGED <<procVars, pendingQueries, replies, storeErrors, pendingSummary, hubVars,
                 storeVars,
                 tailVars, fileVars, outVars, lifeVars, readVars>>

\* app.get('/api/logs'): limit defaults to 100, offset to 0
GetLogs(category, err) ==
  ApiGet("logs",
         Query([limit |-> 100, category |-> category, level |-> "",
                since |-> Null]),
         err)

\* the query strings of GET /api/logs with a search term, a page or both
LogsParams ==
  {[category |-> "", level |-> "", since |-> Null, search |-> <<"b">>,
    limit |-> 100, offset |-> 0],
   [category |-> "", level |-> "", since |-> Null, search |-> <<"_">>,
    limit |-> 100, offset |-> 0],
   [category |-> "", level |-> "", since |-> Null, search |-> <<>>,
    limit |-> 1, offset |-> 1]}

\* an OFFSET without a LIMIT is not SQL: the SELECT fails
QueryFails(filters) ==
  filters.limit = 0 /\ FilterField(filters, "offset", 0) # 0

\* app.get('/api/logs') with the query string params
GetLogsWith(params, err) ==
  ApiGet("logs", Query(params), err \/ QueryFails(params))

\* app.get('/api/analytics/summary') up to the first SELECT of
\* getSummary(), which throws when the storage is not initialized; the
\* request has no answer while its SELECTs are under way
GetAnalyticsSummary ==
  /\ pendingSummary = NoSummary
  /\ IF NotInitialized
     THEN /\ apiReply' = [op |-> "summary", status |-> 500,
                          error |-> "Log storage not initialized",
                          body |-> <<>>]
          /\ UNCHANGED pendingSummary
     ELSE /\ pendingSummary' = [NoSummary EXCEPT !.step = 0]
          /\ apiReply' = NoReply
  /\ UNCHANGED lastOp
  /\ UNCHANGED <<procVars, pendingQueries, replies, storeErrors, hubVars, storeVars,
                 tailVars, fileVars, outVars, lifeVars, readVars>>

\* the callback of the SELECT of getSummary() that is under way, run when
\* the clock reads now: an error rejects, a count is kept and the next
\* SELECT is handed to the database, the category rows resolve; then
\* the endpoint answers
SummaryQueryDone(err, now) ==
  LET step == pendingSummary.step
      value == SummaryQuery(step, now)
  IN /\ step >= 0
     /\ IF err
        THEN /\ apiReply' = [op |-> "summary", status |-> 500,
                             error |-> "SQLITE_ERROR", body |-> <<>>]
             /\ pendingSummary' = NoSummary
        ELSE IF step = 4
        THEN /\ apiReply' =
                  [op |-> "summary", status |-> 200, error |-> "",
                   body |-> [total |-> pendingSummary.total,
                             errors |-> pendingSummary.errors,
                             warnings |-> pendingSummary.warnings,
                             today |-> pendingSummary.today,
                             topCategories |-> value]]
             /\ pendingSummary' = NoSummary
        ELSE /\ pendingSummary' =
                  [step |-> step + 1,
                   total |-> IF step = 0 THEN value ELSE pendingSummary.total,
                   errors |-> IF step = 1 THEN value
                              ELSE pendingSummary.errors,
                   warnings |-> IF step = 2 THEN value
                                ELSE pendingSummary.warnings,
                   today |-> IF step = 3 THEN value ELSE pendingSummary.today]
             /\ UNCHANGED apiReply
     /\ UNCHANGED lastOp
     /\ UNCHANGED <<procVars, pendingQueries, replies, storeErrors, hubVars, storeVars,
                    tailVars, fileVars, outVars, lifeVars, readVars>>

\* app.get('/api/analytics/categories')
GetAnalyticsCategories(err) == ApiGet("categories", GetCategoryCounts, err)

\* --------------------------------------------------------- hub, stateful
\* variant: a new client starts with a category allow-list
ClientWithAllowList(s) ==
  [id |-> s, filters |-> [EmptyFilters EXCEPT !.categories = <<"API">>],
   subscriptions |-> {}]

\* the entry of the clients Map made at connection: filters: {}
ClientOf(s) ==
  [id |-> s, filters |-> EmptyFilters, subscriptions |-> {}]

ClientIndex(s) == CHOOSE i \in 1..Len(clients) : clients[i].id = s
HasClient(s) == \E i \in 1..Len(clients) : clients[i].id = s

\* the sockets an emit addressed to target reaches
Recipients(target) ==
  CASE target[1] = "all" -> sockets
    [] target[1] = "socket" -> {target[2]} \cap sockets
    [] OTHER -> {s \in sockets : <<s, target>> \in rooms}

Delivered(emits) ==
  [i \in 1..Len(emits) |->
     [event |-> emits[i].event, target |-> emits[i].target,
      payload |-> emits[i].payload, recipients |-> Recipients(emits[i].target)]]

\* io.on('connection'): count, register the client, send 'connected'.
\* socket.id is fresh for every connection: an id connects once.
Connect(s) ==
  /\ s \notin sockets
  /\ s \notin DOMAIN welcome
  /\ ~destroyed
  /\ sockets' = sockets \cup {s}
  /\ stats' = [stats EXCEPT !.totalClients = @ + 1]
  /\ clients' = IF HasClient(s)
                THEN [clients EXCEPT ![ClientIndex(s)] = ClientOf(s)]
                ELSE Append(clients, ClientOf(s))
  /\ welcome' = MapSet(welcome, s,
                  [connectedClients |-> stats.totalClients + 1,
                   messagesSent |-> stats.messagesSent])
  /\ UNCHANGED lastOp
  /\ UNCHANGED <<procVars, queryVars, rooms, storeVars, tailVars, fileVars, outVars, lifeVars,
                 readVars>>

\* the body of the 'disconnect' handler of socket s
DisconnectEffects(s) ==
  /\ sockets' = sockets \ {s}
  /\ clients' = IF HasClient(s) THEN RemoveAt(clients, ClientIndex(s))
                ELSE clients
  /\ stats' = [stats EXCEPT !.totalClients = Max(0, @ - 1)]
  /\ rooms' = {m \in rooms : m[1] # s}
  /\ UNCHANGED lastOp
  /\ pendingQueries' =
       {IF q.socket = s THEN [q EXCEPT !.open = FALSE] ELSE q :
          q \in pendingQueries}
  /\ UNCHANGED <<procVars, replies, apiReply, storeErrors, pendingSummary, welcome,
                 storeVars, tailVars, fileVars,
                 outVars, lifeVars, readVars>>

\* socket.on('disconnect'), run when the connection of s closes
Disconnect(s) == s \in sockets /\ DisconnectEffects(s)

\* destroy(): io.removeAllListeners() takes the 'connection' handler off
\* the server, so that later connections do not reach the hub, and
\* clients.clear() empties the Map; the sockets stay connected and keep
\* their own 'disconnect' handlers
Destroy ==
  /\ destroyed' = TRUE
  /\ clients' = <<>>
  /\ UNCHANGED <<dbState, serverClosing, exited, monitors, queryVars,
                 sockets, rooms, stats, welcome, storeVars, tailVars,
                 fileVars, outVars, lifeVars, readVars, lastOp>>

\* the 'disconnect' handler of a socket that has connected, run again
\* after the connection has closed
RepeatedDisconnect(s) ==
  /\ s \notin sockets
  /\ s \in DOMAIN welcome
  /\ DisconnectEffects(s)

\* socket.on('subscribe_category')
SubscribeCategory(s, category) ==
  /\ s \in sockets
  /\ IF HasClient(s)
     THEN /\ clients' = [clients EXCEPT ![ClientIndex(s)].subscriptions =
                          @ \cup {category}]
          /\ rooms' = rooms \cup {<<s, <<"category", category>> >>}
     ELSE UNCHANGED <<clients, rooms>>
  /\ UNCHANGED lastOp
  /\ UNCHANGED <<procVars, queryVars, sockets, stats, welcome, storeVars, tailVars,
                 fileVars, outVars, lifeVars, readVars>>

\* socket.on('unsubscribe_category')
UnsubscribeCategory(s, category) ==
  /\ s \in sockets
  /\ IF HasClient(s)
     THEN /\ clients' = [clients EXCEPT ![ClientIndex(s)].subscriptions =
                          @ \ {category}]
          /\ rooms' = rooms \ {<<s, <<"category", category>> >>}
     ELSE UNCHANGED <<clients, rooms>>
  /\ UNCHANGED lastOp
  /\ UNCHANGED <<procVars, queryVars, sockets, stats, welcome, storeVars, tailVars,
                 fileVars, outVars, lifeVars, readVars>>

\* socket.on('subscribe_level')
SubscribeLevel(s, level) ==
  /\ s \in sockets
  /\ rooms' = rooms \cup {<<s, <<"level", level>> >>}
  /\ UNCHANGED lastOp
  /\ UNCHANGED <<procVars, queryVars, sockets, clients, stats, welcome, storeVars,
                 tailVars, fileVars, outVars, lifeVars, readVars>>

\* the options of request_recent in the model; an absent option is falsy
RecentOptions ==
  {[limit |-> 0, category |-> "", level |-> "", since |-> Null],
   [limit |-> 1, category |-> "API", level |-> "", since |-> Null]}

\* variant: the answer is sent to every connection
RepliedToAll(s) == sockets

\* socket.emit(...): the answer goes to the requesting socket alone
RepliedTo(s) == {s}

\* the events that answer request_recent reach their sockets
Reply(targets, event) ==
  [x \in DOMAIN replies \cup (targets \cap sockets) |->
     IF x \in targets \cap sockets THEN event ELSE replies[x]]

\* socket.on('request_recent') up to its await: logStorage.query throws
\* when the storage is not initialized, else the SELECT is handed to the
\* database
RequestRecent(s, options) ==
  /\ s \in sockets
  /\ Cardinality(pendingQueries) < MaxQueries
  /\ IF ~NotInitialized
     THEN /\ pendingQueries' = pendingQueries \cup
               {[socket |-> s, options |-> options, open |-> TRUE]}
          /\ UNCHANGED replies
     ELSE /\ replies' = Reply(RepliedTo(s),
                              [event |-> "error",
                               type |-> "recent_logs_error"])
          /\ UNCHANGED pendingQueries
  /\ UNCHANGED lastOp
  /\ UNCHANGED <<procVars, apiReply, storeErrors, pendingSummary, hubVars, storeVars,
                 tailVars, fileVars,
                 outVars,
                 lifeVars, readVars>>

\* the db.all callback of query() for the pending SELECT q, and what runs
\* after the await in the request_recent handler.  err: the SELECT failed.
\* A socket that has closed in the meantime receives nothing.
QueryDone(q, err) ==
  LET recentLogs == Query([limit |-> IF q.options.limit # 0
                                    THEN q.options.limit ELSE 50,
                           category |-> q.options.category,
                           level |-> q.options.level,
                           since |-> q.options.since])
      targets == IF q.open THEN RepliedTo(q.socket) ELSE {}
  IN /\ q \in pendingQueries
     /\ pendingQueries' = pendingQueries \ {q}
     /\ replies' =
          IF err
          THEN Reply(targets, [event |-> "error",
                               type |-> "recent_logs_error"])
          ELSE Reply(targets,
                     [event |-> "recent_logs", logs |-> recentLogs,
                      count |-> Len(recentLogs),
                      category |-> q.options.category,
                      level |-> q.options.level])
     /\ UNCHANGED lastOp
     /\ UNCHANGED <<procVars, apiReply, storeErrors, pendingSummary, hubVars, storeVars,
                 tailVars, fileVars,
                 outVars,
                    lifeVars, readVars>>

\* variant: the fields the new filter leaves out keep their old value
MergedFilters(old, filters) ==
  [k \in DOMAIN old |-> IF filters[k] # <<>> THEN filters[k] ELSE old[k]]

\* client.filters = filters
NewFilters(old, filters) == filters

\* socket.on('update_filters')
UpdateFilters(s, filters) ==
  /\ s \in sockets
  /\ HasClient(s)
  /\ clients' = [clients EXCEPT ![ClientIndex(s)].filters =
                   NewFilters(@, filters)]
  /\ UNCHANGED lastOp
  /\ UNCHANGED <<procVars, queryVars, sockets, rooms, stats, welcome, storeVars, tailVars,
                 fileVars, outVars, lifeVars, readVars>>

\* ------------------------------------------------------ ingestion paths
\* what the file path's stream callback hands to broadcast:
\* streamFileLogsTosDashboard calls logStreamer.broadcast('newLog', logEntry)
\* and broadcast takes its first argument for the log entry
StreamCallbackArgument(logEntry) == JsString(<<"n","e","w","L","o","g">>)

\* what POST /api/logs hands to broadcast
PostBroadcastArgument(logEntry) == logEntry

\* variant: broadcast does not wait for the outcome of the store
BroadcastRegardlessOfStore == TRUE

\* is broadcast reached after a store that failed?  (await store(...)
\* throws, and the call of broadcast after it is skipped)
BroadcastAfterFailedStore == FALSE

\* the request bodies of the model; an absent field is falsy
Bodies ==
  {[timestamp |-> Null, level |-> "", category |-> "", message |-> <<>>,
    data |-> Null, source |-> "", environment |-> ""],
   [timestamp |-> Null, level |-> "ERROR", category |-> "API",
    message |-> <<"a">>, data |-> DataObject(<<"b">>), source |-> "web",
    environment |-> "staging"]}

\* the request bodies of the hub runs: also an entry whose data, not its
\* message, holds the letter a
HubBodies ==
  Bodies \cup
  {[timestamp |-> Null, level |-> "", category |-> "API",
    message |-> <<"b">>, data |-> DataObject(<<"a">>), source |-> "",
    environment |-> ""],
   [timestamp |-> Null, level |-> "", category |-> "API",
    message |-> <<"b">>, data |-> Null, source |-> "",
    environment |-> ""]}

\* the log entry POST /api/logs builds from the request body
PostLogEntry(body, id, clock) ==
  [type |-> "object", id |-> id,
   timestamp |-> IF body.timestamp # Null THEN body.timestamp
                 ELSE IsoTime(clock),
   level |-> IF body.level # "" THEN body.level ELSE "INFO",
   category |-> IF body.category # "" THEN body.category ELSE "GENERAL",
   message |-> body.message,
   data |-> body.data,
   source |-> IF body.source # "" THEN body.source ELSE "unknown",
   environment |-> IF body.environment # "" THEN body.environment
                   ELSE "development"]

\* app.post('/api/logs') up to its await: build the entry, call store();
\* store() throws when the storage is not initialized, which the handler
\* answers with 500
PostLogsAs(body, id, maxRecords) ==
  LET logEntry == PostLogEntry(body, id, nextId)
  IN /\ nextId <= maxRecords
     /\ nextId' = nextId + 1
     /\ IF ~NotInitialized
        THEN /\ pendingStores' =
                  pendingStores \cup {[entry |-> logEntry, via |-> "http"]}
             /\ UNCHANGED responses
        ELSE /\ responses' = responses \cup {[id |-> logEntry.id, status |-> 500]}
             /\ UNCHANGED pendingStores
     /\ UNCHANGED lastOp
     /\ UNCHANGED <<procVars, queryVars, initialized, logs, mirror, emitted, broadcastFor,
                    tailVars, fileVars, hubVars, lifeVars, readVars>>

\* uuid v4 as a rule draws an id that no entry has had
PostLogs(body, maxRecords) == PostLogsAs(body, nextId, maxRecords)

\* variant: the INSERT fails on a database error alone
InsertFailsOnError(logEntry, err) == err

\* the INSERT fails on a database error and, id being the PRIMARY KEY of
\* logs, on an id that a row already has
InsertFails(logEntry, err) ==
  err \/ logEntry.id \in StoredIds \/ dbState = "closed"

\* variant: the table keeps the newest row alone
InsertedNewestOnly(rows, logEntry) == <<StoreParams(logEntry)>>

\* INSERT INTO logs: the table with the row of logEntry added
Inserted(rows, logEntry) == Append(rows, StoreParams(logEntry))

\* variant: a failed backup append makes store() reject as well
StoreRejectsOnMirrorFailure(logEntry, err, mirrorOk) ==
  InsertFails(logEntry, err) \/ ~mirrorOk

\* store() rejects when the INSERT has failed; saveToFile catches its own
\* errors, so the backup append has no part in it
StoreRejects(logEntry, err, mirrorOk) == InsertFails(logEntry, err)

\* the db.run callback of store() for the pending INSERT p, and what runs
\* after the await in the caller.  err: the INSERT failed; mirrorOk: the
\* backup append of saveToFile succeeded.
InsertDone(p, err, mirrorOk) ==
  LET logEntry == p.entry
      failed == InsertFails(logEntry, err)
      rejected == StoreRejects(logEntry, err, mirrorOk)
      argument == IF p.via = "file" THEN StreamCallbackArgument(logEntry)
                  ELSE PostBroadcastArgument(logEntry)
      calls == ~rejected \/ BroadcastAfterFailedStore
      result == BroadcastEmits(argument, clients)
  IN /\ p \in pendingStores
     /\ pendingStores' = pendingStores \ {p}
     /\ logs' = IF failed THEN logs ELSE Inserted(logs, logEntry)
     /\ mirror' = IF failed \/ ~mirrorOk THEN mirror
                  ELSE Append(mirror, MirrorLine(logEntry))
     /\ emitted' = IF calls THEN emitted \o Delivered(result.emits)
                   ELSE emitted
     /\ broadcastFor' = IF calls THEN broadcastFor \cup {logEntry.id}
                        ELSE broadcastFor
     /\ stats' = IF calls /\ ~result.threw
                 THEN [stats EXCEPT !.messagesSent = @ + 1] ELSE stats
     /\ responses' =
          IF p.via = "http"
          THEN responses \cup
                 {[id |-> logEntry.id,
                   status |-> IF rejected \/ result.threw THEN 500 ELSE 200]}
          ELSE responses
     /\ storeErrors' =
          IF failed
          THEN storeErrors \cup
                 {[id |-> logEntry.id,
                   code |-> IF err THEN "SQLITE_ERROR"
                            ELSE IF dbState = "closed" THEN "SQLITE_MISUSE"
                            ELSE "SQLITE_CONSTRAINT"]}
          ELSE storeErrors
     /\ UNCHANGED lastOp
     /\ UNCHANGED <<procVars, pendingQueries, replies, apiReply, pendingSummary,
                    initialized, nextId,
                    sockets, clients, rooms, welcome, tailVars, fileVars,
                    lifeVars, readVars>>

\* ------------------------------------------------------- specification
\* the pipeline: both ingestion paths, the store and the hub
Next ==
  \/ InitDone
  \/ \E f \in Paths, bytes \in PipeChunks : AppendBytes(f, bytes, PipeWrites)
  \/ \E outcome \in [Paths -> WatchOutcomes] :
       StartFileWatching(LOG_FILES_TO_WATCH, outcome)
  \/ \E f \in Paths : ProcessFileChanges(f, PipeStreams)
  \/ \E f \in Paths, i \in 1..PipeStreams : StreamData(f, i, PipeRecords)
  \/ \E f \in Paths, i \in 1..PipeStreams : StreamEnd(f, i)
  \/ \E body \in Bodies : PostLogs(body, PipeRecords)
  \/ \E p \in pendingStores, err \in BOOLEAN : InsertDone(p, err, TRUE)
  \/ \E s \in Sockets : Connect(s)
  \/ \E s \in Sockets : Disconnect(s)
  \/ \E s \in Sockets, filters \in FilterChoices : UpdateFilters(s, filters)

\* the lines written to the watched file in the runs about the parser:
\* JSON documents, one of them after a blank and one before a carriage
\* return, a text that starts like a document, texts with the words of
\* the category rules, and lines with a timestamp and a level in brackets
ParseLines ==
  {<<"{", "}">>,
   <<"{", "\"", "l", "e", "v", "e", "l", "\"", ":", "\"", "W", "A", "R", "N",
     "\"", ",", "\"", "m", "s", "g", "\"", ":", "\"", "m", "\"", "}">>,
   <<"{", "\"", "l", "e", "v", "e", "l", "\"", ":", "\"", "t", "r", "a", "c",
     "e", "\"", ",", "\"", "m", "e", "s", "s", "a", "g", "e", "\"", ":", "\"",
     "m", "\"", "}">>,
   <<"{", "\"", "t", "i", "m", "e", "s", "t", "a", "m", "p", "\"", ":", "\"",
     "t", "\"", ",", "\"", "c", "a", "t", "e", "g", "o", "r", "y", "\"", ":",
     "\"", "A", "P", "I", "\"", ",", "\"", "m", "e", "s", "s", "a", "g", "e",
     "\"", ":", "\"", "m", "\"", ",", "\"", "d", "a", "t", "a", "\"", ":",
     "{", "\"", "k", "\"", ":", "\"", "b", "\"", "}", "}">>,
   <<" ", "{", "\"", "l", "e", "v", "e", "l", "\"", ":", "\"", "W", "A", "R",
     "N", "\"", ",", "\"", "m", "s", "g", "\"", ":", "\"", "m", "\"", "}">>,
   <<"{", "\"", "l", "e", "v", "e", "l", "\"", ":", "\"", "W", "A", "R", "N",
     "\"", ",", "\"", "m", "s", "g", "\"", ":", "\"", "m", "\"", "}", "\r">>,
   <<"{", "x">>,
   <<"e", "r", "r", "o", "r", " ", "i", "n", " ", "a", "p", "i", " ", "r",
     "e", "q", "u", "e", "s", "t">>,
   <<"r", "a", "n", "d", "o", "m", " ", "u", "n", "s", "t", "r", "u", "c",
     "t", "u", "r", "e", "d", " ", "t", "e", "x", "t">>,
   <<"[", "E", "R", "R", "O", "R", "]", " ", "a", "p", "i">>,
   <<"[", "w", "a", "r", "n", "]", " ", "L", "o", "g", "i", "n", " ", "A",
     "P", "I">>,
   <<"R", "e", "q", "u", "e", "s", "t", " ", "d", "b">>,
   <<"D", "a", "t", "a", "b", "a", "s", "e">>,
   <<"[", "2", "0", "2", "5", "-", "0", "8", "-", "0", "8", " ", "1", "2",
     ":", "3", "4", ":", "5", "6", "]", " ", "[", "I", "N", "F", "O", "]">>,
   <<"[", "2", "0", "2", "5", "-", "0", "8", "-", "0", "8", "T", "1", "2",
     ":", "3", "4", ":", "5", "6", "Z", "]", " ", "[", "d", "e", "b", "u",
     "g", "]", " ", "x">>}
ParseChunks == {line \o <<NL>> : line \in ParseLines}

\* the pipeline runs start with the log files just created
InitPipeline == Init /\ \A f \in Paths : fileData[f] = <<>>
Spec == InitPipeline /\ [][Next]_vars

\* the body posted in the runs of the whole core
CoreBodies == {body \in Bodies : body.level = "ERROR"}

\* every operation of the core: both ingestion paths, the counts per
\* category, a viewer that comes and goes, and the shutdown that stops the watchers
NextCore ==
  \/ InitDone
  \/ \E f \in Paths, bytes \in PipeChunks : AppendBytes(f, bytes, PipeWrites)
  \/ StartFileWatching(LOG_FILES_TO_WATCH, [f \in Paths |-> "ok"])
  \/ \E f \in Paths : ProcessFileChanges(f, PipeStreams)
  \/ \E f \in Paths, i \in 1..PipeStreams : StreamData(f, i, CoreRecords)
  \/ \E f \in Paths, i \in 1..PipeStreams : StreamEnd(f, i)
  \/ StopFileWatching
  \/ \E body \in CoreBodies : PostLogs(body, CoreRecords)
  \/ \E p \in pendingStores : InsertDone(p, FALSE, TRUE)
  \/ GetAnalyticsCategories(FALSE)
  \/ \E s \in Sockets : Connect(s)
  \/ \E s \in Sockets : Disconnect(s)
SpecCore == InitPipeline /\ [][NextCore]_vars

\* bodies posted with a timestamp of their own: a date and time, and a
\* year alone
QueryBodies ==
  Bodies \cup
  {[timestamp |-> TextTime(<<"2","0","2","5","-","0","8","-","0","8","T",
                             "1","2",":","3","4",":","5","6","Z">>),
    level |-> "WARN", category |-> "API", message |-> <<"b">>,
    data |-> Null, source |-> "web", environment |-> ""],
   [timestamp |-> TextTime(<<"2","0","2","5">>),
    level |-> "ERROR", category |-> "AUTH", message |-> <<"c">>,
    data |-> DataObject(<<"b">>), source |-> "", environment |-> ""]}

\* entries posted to /api/logs, stored, and read back by the GET endpoints
NextQuery ==
  \/ InitDone
  \/ \E body \in QueryBodies : PostLogs(body, QueryRecords)
  \/ \E p \in pendingStores, err \in BOOLEAN : InsertDone(p, err, TRUE)
  \/ \E category \in LogsQueries : GetLogs(category, FALSE)
  \/ \E params \in LogsParams : GetLogsWith(params, FALSE)
SpecQuery == InitPipeline /\ [][NextQuery]_vars

\* the rows an earlier run of the process has left in the database file:
\* eleven categories with one row each, of a day before this run
OldCategories ==
  <<"K01", "K02", "K03", "K04", "K05", "K06", "K07", "K08", "K09", "K10",
    "K11">>
OldRows ==
  [i \in 1..11 |->
     [id |-> 100 + i, timestamp |-> IsoTime(0 - i), level |-> "INFO",
      category |-> OldCategories[i], message |-> <<"o">>, data |-> Null,
      source |-> "unknown", environment |-> "development"]]

\* bodies posted with the levels ERROR, WARN and none
SummaryBodies ==
  {[timestamp |-> Null, level |-> l, category |-> "API", message |-> <<"a">>,
    data |-> Null, source |-> "", environment |-> ""] :
     l \in {"ERROR", "WARN", ""}}

\* the database file is new or holds the rows of an earlier run
InitSummary ==
  /\ \E rows \in {<<>>, OldRows} : InitWith(Paths, rows)
  /\ \A f \in Paths : fileData[f] = <<>>

\* entries posted to /api/logs one after the other while the summary is
\* asked for, on the day of the entries or a day later
NextSummary ==
  \/ InitDone
  \/ \E body \in SummaryBodies :
       pendingStores = {} /\ PostLogs(body, SummaryRecords)
  \/ \E p \in pendingStores : InsertDone(p, FALSE, TRUE)
  \/ GetAnalyticsSummary
  \/ \E err \in BOOLEAN, later \in {0, DayLength} :
       SummaryQueryDone(err, nextId + later)
SpecSummary == InitSummary /\ [][NextSummary]_vars

\* lines written to the watched file, read, parsed and stored
NextParse ==
  \/ InitDone
  \/ \E f \in Paths, bytes \in ParseChunks : AppendBytes(f, bytes, PipeWrites)
  \/ StartFileWatching(LOG_FILES_TO_WATCH, [f \in Paths |-> "ok"])
  \/ \E f \in Paths : ProcessFileChanges(f, PipeStreams)
  \/ \E f \in Paths, i \in 1..PipeStreams : StreamData(f, i, PipeRecords)
  \/ \E f \in Paths, i \in 1..PipeStreams : StreamEnd(f, i)
  \/ \E p \in pendingStores : InsertDone(p, FALSE, TRUE)
SpecParse == InitPipeline /\ [][NextParse]_vars

\* the bodies posted in the runs about the fields of a Record: also one
\* whose level is a word of the sender's own
RecordBodies ==
  Bodies \cup
  {[timestamp |-> Null, level |-> "verbose", category |-> "",
    message |-> <<"a">>, data |-> Null, source |-> "", environment |-> ""]}

\* both ingestion paths, with a viewer connected or not
NextRecords ==
  \/ NextParse
  \/ \E body \in RecordBodies : PostLogs(body, PipeRecords)
  \/ \E s \in Sockets : Connect(s)
SpecRecords == InitPipeline /\ [][NextRecords]_vars

\* writes of two or three whole lines
OrderChunks ==
  {<<"A", NL, "B", NL>>, <<"B", NL, "A", NL>>, <<"A", NL, " ", NL, "B", NL>>}

\* lines written to the watched file together, read by one stream, each
\* stored by its own INSERT, with a viewer connected or not
NextOrder ==
  \/ InitDone
  \/ \E f \in Paths, bytes \in OrderChunks : AppendBytes(f, bytes, 1)
  \/ StartFileWatching(LOG_FILES_TO_WATCH, [f \in Paths |-> "ok"])
  \/ \E f \in Paths : ProcessFileChanges(f, 1)
  \/ \E f \in Paths : StreamData(f, 1, OrderRecords)
  \/ \E f \in Paths : StreamEnd(f, 1)
  \/ \E p \in pendingStores, err \in BOOLEAN : InsertDone(p, err, TRUE)
  \/ \E s \in Sockets : Connect(s)
  \/ \E s \in Sockets : Disconnect(s)
SpecOrder == InitPipeline /\ [][NextOrder]_vars

\* the process is sent a termination signal, once or twice, while lines
\* are read from the watched file and viewers come and go; nothing runs
\* once the process has exited
NextShutdown ==
  \/ ~exited /\ InitDone
  \/ \E f \in Paths, bytes \in PipeChunks :
       ~exited /\ AppendBytes(f, bytes, PipeWrites)
  \/ ~exited /\ StartFileWatching(LOG_FILES_TO_WATCH, [f \in Paths |-> "ok"])
  \/ \E f \in Paths : ~exited /\ ProcessFileChanges(f, PipeStreams)
  \/ \E f \in Paths, i \in 1..PipeStreams :
       ~exited /\ StreamData(f, i, PipeRecords)
  \/ \E f \in Paths, i \in 1..PipeStreams : ~exited /\ StreamEnd(f, i)
  \/ \E p \in pendingStores : ~exited /\ InsertDone(p, FALSE, TRUE)
  \/ \E s \in Sockets : ~exited /\ Connect(s)
  \/ \E s \in Sockets : ~exited /\ Disconnect(s)
  \/ ~exited /\ Shutdown
  \/ DbClosed /\ ~exited
  \/ ServerClosed
SpecShutdown == InitPipeline /\ [][NextShutdown]_vars

\* viewers connect, subscribe and disconnect, a disconnect is reported
\* twice, and the hub is destroyed
NextHub ==
  \/ InitDone
  \/ \E body \in Bodies : PostLogs(body, HubRecords)
  \/ \E p \in pendingStores : InsertDone(p, FALSE, TRUE)
  \/ \E s \in HubSockets : Connect(s)
  \/ \E s \in HubSockets : Disconnect(s)
  \/ \E s \in HubSockets : RepeatedDisconnect(s)
  \/ \E s \in HubSockets, c \in RoomCategories : SubscribeCategory(s, c)
  \/ Destroy
SpecHub == InitPipeline /\ [][NextHub]_vars

\* two viewers with filters of their own while entries arrive on both
\* ingestion paths
NextIsolation ==
  \/ InitDone
  \/ \E f \in Paths, bytes \in PipeChunks : AppendBytes(f, bytes, PipeWrites)
  \/ StartFileWatching(LOG_FILES_TO_WATCH, [f \in Paths |-> "ok"])
  \/ \E f \in Paths : ProcessFileChanges(f, PipeStreams)
  \/ \E f \in Paths, i \in 1..PipeStreams : StreamData(f, i, HubRecords)
  \/ \E f \in Paths, i \in 1..PipeStreams : StreamEnd(f, i)
  \/ \E body \in Bodies : PostLogs(body, HubRecords)
  \/ \E p \in pendingStores : InsertDone(p, FALSE, TRUE)
  \/ \E s \in HubSockets : Connect(s)
  \/ \E s \in HubSockets : Disconnect(s)
  \/ \E s \in HubSockets, filters \in FilterChoices :
       UpdateFilters(s, filters)
SpecIsolation == InitPipeline /\ [][NextIsolation]_vars

\* the path lists of the runs with repeated starts: the configured list
\* and one that names its path twice
WatchLists ==
  {LOG_FILES_TO_WATCH, LOG_FILES_TO_WATCH \o LOG_FILES_TO_WATCH}

\* startFileWatching is called any number of times, with or without a
\* stop in between, while the file grows and is read
NextWatchers ==
  \/ \E f \in Paths, bytes \in PipeChunks : AppendBytes(f, bytes, PipeWrites)
  \/ \E list \in WatchLists, outcome \in [Paths -> WatchOutcomes] :
       /\ Cardinality(monitors) + Len(list) <= MaxWatchers
       /\ StartWatching(list, outcome)
  \/ \E f \in Paths : ProcessFileChanges(f, PipeStreams)
  \/ \E f \in Paths, i \in 1..PipeStreams : StreamData(f, i, PipeRecords)
  \/ \E f \in Paths, i \in 1..PipeStreams : StreamEnd(f, i)
  \/ StopFileWatching
SpecWatchers == Init /\ [][NextWatchers]_vars

\* entries posted to /api/logs whose ids may repeat an id drawn before,
\* INSERTs that fail or succeed and backup appends that fail or succeed
NextIds ==
  \/ InitDone
  \/ \E body \in Bodies, id \in 1..IdRecords :
       id <= nextId /\ PostLogsAs(body, id, IdRecords)
  \/ \E p \in pendingStores, err \in BOOLEAN, mirrorOk \in BOOLEAN :
       InsertDone(p, err, mirrorOk)
  \/ \E category \in LogsQueries : GetLogs(category, FALSE)
SpecIds == InitPipeline /\ [][NextIds]_vars

\* the callers of the storage while it initializes and after: both
\* ingestion paths and the GET endpoints
NextStore ==
  \/ InitDone
  \/ \E f \in Paths, bytes \in PipeChunks : AppendBytes(f, bytes, PipeWrites)
  \/ \E outcome \in [Paths -> WatchOutcomes] :
       StartFileWatching(LOG_FILES_TO_WATCH, outcome)
  \/ \E f \in Paths : ProcessFileChanges(f, PipeStreams)
  \/ \E f \in Paths, i \in 1..PipeStreams : StreamData(f, i, PipeRecords)
  \/ \E f \in Paths, i \in 1..PipeStreams : StreamEnd(f, i)
  \/ \E body \in Bodies : PostLogs(body, PipeRecords)
  \/ \E p \in pendingStores, err \in BOOLEAN : InsertDone(p, err, TRUE)
  \/ \E category \in LogsQueries, err \in BOOLEAN : GetLogs(category, err)
  \/ GetAnalyticsSummary
  \/ \E err \in BOOLEAN : SummaryQueryDone(err, nextId)
  \/ \E err \in BOOLEAN : GetAnalyticsCategories(err)
SpecStore == InitPipeline /\ [][NextStore]_vars

\* the file tailer while the storage is still initializing: appends,
\* truncations, change notifications, overlapping reads, shutdown
NextTail ==
  \/ \E f \in Paths, bytes \in TailChunks : AppendBytes(f, bytes, MaxWrites)
  \/ \E f \in Paths : Truncate(f)
  \/ \E outcome \in [Paths -> WatchOutcomes] :
       StartFileWatching(LOG_FILES_TO_WATCH, outcome)
  \/ \E f \in Paths : ProcessFileChanges(f, MaxStreams)
  \/ \E f \in Paths, i \in 1..MaxStreams : StreamData(f, i, MaxRecords)
  \/ \E f \in Paths, i \in 1..MaxStreams : StreamEnd(f, i)
  \/ StopFileWatching

SpecTail == Init /\ [][NextTail]_vars

\* the start of watching for a list of two files, and the tailing of the
\* files that are watched, while the storage is still initializing
NextWatch ==
  \/ \E f \in Range(TwoLogFiles), bytes \in PipeChunks :
       AppendBytes(f, bytes, WatchWrites)
  \/ \E outcome \in [Range(TwoLogFiles) -> WatchOutcomes] :
       StartFileWatching(TwoLogFiles, outcome)
  \/ \E f \in Range(TwoLogFiles) : ProcessFileChanges(f, WatchStreams)
  \/ \E f \in Range(TwoLogFiles), i \in 1..WatchStreams :
       StreamData(f, i, MaxRecords)
  \/ \E f \in Range(TwoLogFiles), i \in 1..WatchStreams : StreamEnd(f, i)
  \/ StopFileWatching
InitWatch == InitFor(Range(TwoLogFiles))
SpecWatch == InitWatch /\ [][NextWatch]_vars

\* one viewer that changes its filter, and entries posted to /api/logs
NextFilter ==
  \/ InitDone
  \/ \E body \in HubBodies : PostLogs(body, HubRecords)
  \/ \E p \in pendingStores, err \in BOOLEAN : InsertDone(p, err, TRUE)
  \/ \E s \in Sockets : Connect(s)
  \/ \E s \in Sockets : Disconnect(s)
  \/ \E s \in Sockets, filters \in HubFilters : UpdateFilters(s, filters)
SpecFilter == InitPipeline /\ [][NextFilter]_vars

\* two viewers that join and leave rooms, change filters and disconnect,
\* and entries posted to /api/logs
NextRooms ==
  \/ InitDone
  \/ \E body \in Bodies : PostLogs(body, HubRecords)
  \/ \E p \in pendingStores, err \in BOOLEAN : InsertDone(p, err, TRUE)
  \/ \E s \in HubSockets : Connect(s)
  \/ \E s \in HubSockets : Disconnect(s)
  \/ \E s \in HubSockets, c \in RoomCategories : SubscribeCategory(s, c)
  \/ \E s \in HubSockets, c \in RoomCategories : UnsubscribeCategory(s, c)
  \/ \E s \in HubSockets, l \in RoomLevels : SubscribeLevel(s, l)
  \/ \E s \in HubSockets, filters \in FilterChoices :
       UpdateFilters(s, filters)
SpecRooms == InitPipeline /\ [][NextRooms]_vars

\* two viewers that connect and disconnect, the 'disconnect' handler of a
\* closed connection run once more, and entries posted to /api/logs
NextDisconnect ==
  \/ InitDone
  \/ \E body \in Bodies : PostLogs(body, HubRecords)
  \/ \E p \in pendingStores, err \in BOOLEAN : InsertDone(p, err, TRUE)
  \/ \E s \in HubSockets : Connect(s)
  \/ \E s \in HubSockets : Disconnect(s)
  \/ \E s \in HubSockets : RepeatedDisconnect(s)
  \/ \E s \in HubSockets, c \in RoomCategories : SubscribeCategory(s, c)
SpecDisconnect == InitPipeline /\ [][NextDisconnect]_vars

\* two viewers that ask for recent entries, and entries posted to /api/logs
NextRecent ==
  \/ InitDone
  \/ \E body \in Bodies : PostLogs(body, HubRecords)
  \/ \E p \in pendingStores, err \in BOOLEAN : InsertDone(p, err, TRUE)
  \/ \E s \in HubSockets : Connect(s)
  \/ \E s \in HubSockets : Disconnect(s)
  \/ \E s \in HubSockets, options \in RecentOptions :
       RequestRecent(s, options)
  \/ \E q \in pendingQueries, err \in BOOLEAN : QueryDone(q, err)
SpecRecent == InitPipeline /\ [][NextRecent]_vars

\* =================================================================== claims
\* the whole line of file f that the line break at 1-based offset e ends,
\* counted from the byte where watching began
PrevBreak(f, e) ==
  LET breaks == {k \in 1..(e - 1) : fileData[f][k] = NL}
  IN IF breaks = {} THEN 0 ELSE CHOOSE k \in breaks : \A j \in breaks : j <= k

FullLine(f, e) ==
  SubSeq(fileData[f], Max(PrevBreak(f, e), watchedFrom[f]) + 1, e - 1)

\* C1: broadcast is invoked for an entry only after its store has succeeded:
\* every entry an ingestion path invoked broadcast for is a row of the
\* logs table, and every log entry that was emitted to viewers is stored
\* with exactly the fields that were emitted.
BroadcastAfterStore ==
  /\ \A id \in broadcastFor : id \in StoredIds
  /\ \A i \in 1..Len(emitted) :
       IsObject(emitted[i].payload) =>
         \E k \in 1..Len(logs) : logs[k] = StoreParams(emitted[i].payload)

\* broadcast was invoked for a stored entry, a viewer has received it and
\* the request that brought it was answered with 200
BroadcastAfterStoreWitness ==
  \E i \in 1..Len(emitted) :
    /\ emitted[i].event = "new_log"
    /\ IsObject(emitted[i].payload)
    /\ emitted[i].recipients # {}
    /\ emitted[i].payload.id \in broadcastFor \cap StoredIds
    /\ [id |-> emitted[i].payload.id, status |-> 200] \in responses

\* C2: every entry parsed from a watched file and persisted reaches the
\* viewers as that entry: for every entry broadcast was invoked for, a
\* new_log event was emitted whose payload is the entry with that id.
ForwardedAsRecord ==
  \A id \in broadcastFor :
    \E i \in 1..Len(emitted) :
      /\ emitted[i].event = "new_log"
      /\ IsObject(emitted[i].payload)
      /\ emitted[i].payload.id = id

\* C3: partial-line buffering: a line handed to the parser is the whole
\* line of the file, also when its first bytes were consumed by an earlier
\* batch ("A", then "B\n", gives "AB").
PartialLineBuffering ==
  \A i \in 1..Len(handed) :
    LET h == handed[i]
    IN ~truncated[h.path] => h.line = FullLine(h.path, h.end)

\* C4: no line of an untruncated file is handed to the parser twice,
\* whatever the interleaving of notifications, appends and reads.
HandedAtMostOnce ==
  \A i, j \in 1..Len(handed) :
    (i < j /\ handed[i].path = handed[j].path /\ ~truncated[handed[i].path])
      => handed[i].end # handed[j].end

\* C5: no line is skipped: once a notification processed after the last
\* write has completed its read (no read in flight, the offset is the file
\* size), every complete non-blank line appended since watching began has
\* been handed to the parser.
NoLineSkipped ==
  \A f \in fileWatchers :
    (~truncated[f] /\ streams[f] = <<>> /\ LastPosition(f) = Len(fileData[f]))
      => \A e \in (watchedFrom[f] + 1)..Len(fileData[f]) :
           (fileData[f][e] = NL /\ Trim(FullLine(f, e)) # <<>>)
             => \E i \in 1..Len(handed) :
                  /\ handed[i].path = f
                  /\ handed[i].end = e
                  /\ handed[i].line = FullLine(f, e)

\* C6: the offset of a watched file never decreases, also when reads of
\* the file overlap and end in any order.
OffsetMonotone ==
  [][\A f \in fileWatchers \cap fileWatchers' :
       (f \in DOMAIN filePositions /\ f \in DOMAIN filePositions')
         => filePositions'[f] >= filePositions[f]]_vars

TailStartsAtEnd ==
  /\ \A f \in DOMAIN watchedFrom : \A i \in 1..Len(streams[f]) :
       streams[f][i].start >= watchedFrom[f]
  /\ \A i \in 1..Len(handed) : OldChar \notin Range(handed[i].line)

\* a line was handed from a file that was not empty when watching began
TailStartsAtEndWitness ==
  \E i \in 1..Len(handed) : watchedFrom[handed[i].path] > 0

\* C9: a change notification for a file whose size is at most the offset
\* changes nothing: no stream is created, no line is handed, nothing is
\* stored or emitted, and the offsets stay as they were.
NoGrowthIsNoop ==
  [][\A f \in Paths :
       (Len(fileData[f]) <= LastPosition(f) /\ ProcessFileChanges(f, MaxStreams))
         => UNCHANGED <<tailVars, readVars, storeVars, outVars, fileVars,
                        hubVars>>]_vars

\* a notification was processed for a file shorter than its offset
NoGrowthIsNoopWitness ==
  lastOp.op = "changeNoop" /\ lastOp.size < lastOp.arg

\* C10: stopFileWatching leaves no watcher and no offset, and a call made
\* when nothing is watched changes nothing.
StopIsIdempotent ==
  [][StopFileWatching =>
       /\ fileWatchers' = {}
       /\ filePositions' = EmptyMap
       /\ (fileWatchers = {} /\ filePositions = EmptyMap)
            => UNCHANGED <<tailVars, readVars, storeVars, outVars, fileVars,
                           hubVars>>]_vars

\* stopFileWatching was called twice in a row, the first time with a file
\* being watched
StopIsIdempotentWitness ==
  /\ lastOp.op = "stop" /\ lastOp.arg = 1
  /\ watchedFrom # EmptyMap
  /\ fileWatchers = {} /\ filePositions = EmptyMap

\* C11: a failure to set up the watch of one path does not end
\* startFileWatching: the call completes, and every path of the list whose
\* own setup succeeds has an offset (the file size) and a watcher, whatever
\* happened for the other paths.
WatchFailureIsContained ==
  [][\A outcome \in [Range(TwoLogFiles) -> WatchOutcomes] :
       StartFileWatching(TwoLogFiles, outcome) =>
         /\ started'
         /\ \A f \in Range(TwoLogFiles) :
              outcome[f] = "ok" =>
                /\ f \in fileWatchers'
                /\ f \in DOMAIN filePositions'
                /\ filePositions'[f] = Len(fileData[f])]_vars

\* the setup of the first path of the list failed, the second path is
\* watched and a line appended to it has been read
WatchFailureIsContainedWitness ==
  /\ started
  /\ TwoLogFiles[1] \notin fileWatchers
  /\ TwoLogFiles[2] \in fileWatchers
  /\ TwoLogFiles[2] \in DOMAIN filePositions
  /\ \E i \in 1..Len(handed) : handed[i].path = TwoLogFiles[2]

\* --------------------------------------------------------------- the hub
\* this step is one broadcast(record) call for a log entry
BroadcastOfRecord ==
  /\ Len(emitted') > Len(emitted)
  /\ emitted'[Len(emitted) + 1].event = "new_log"
  /\ IsObject(emitted'[Len(emitted) + 1].payload)

\* the entry of the broadcast of this step
BroadcastRecord == emitted'[Len(emitted) + 1].payload

\* the broadcast of this step delivers the filtered event to socket s
FilteredTo(s) ==
  \E k \in (Len(emitted) + 1)..Len(emitted') :
    /\ emitted'[k].event = "filtered_log"
    /\ emitted'[k].target = <<"socket", s>>
    /\ emitted'[k].payload = BroadcastRecord
    /\ s \in emitted'[k].recipients

\* the allow-lists of filter f admit record r
AllowListsAdmit(r, f) ==
  /\ f.categories = <<>> \/ ArrIncludes(f.categories, r.category)
  /\ f.levels = <<>> \/ ArrIncludes(f.levels, r.level)
  /\ f.sources = <<>> \/ ArrIncludes(f.sources, r.source)

\* the search term of f appears, whatever the case of the letters, in the
\* message of r or in its serialized data
SearchTermAppears(r, f) ==
  \/ Includes(ToLowerCase(r.message), ToLowerCase(f.search))
  \/ /\ r.data # Null
     /\ Includes(ToLowerCase(JsonStringify(r.data)), ToLowerCase(f.search))

\* C12 (as stated): on every broadcast of a Record, a connection receives
\* the filtered event iff every allow-list is unset, empty or contains the
\* Record's value, and the search term is unset or appears in the message
\* or the serialized data.
FilterIsConjunction ==
  [][BroadcastOfRecord =>
       \A i \in 1..Len(clients) :
         FilteredTo(clients[i].id) <=>
           /\ AllowListsAdmit(BroadcastRecord, clients[i].filters)
           /\ \/ clients[i].filters.search = <<>>
              \/ SearchTermAppears(BroadcastRecord, clients[i].filters)]_vars

\* C12 (amended): the same, where a search term that is blank (only white
\* space) counts as unset.
FilterIsConjunctionOfNonBlank ==
  [][BroadcastOfRecord =>
       \A i \in 1..Len(clients) :
         FilteredTo(clients[i].id) <=>
           /\ AllowListsAdmit(BroadcastRecord, clients[i].filters)
           /\ \/ Trim(clients[i].filters.search) = <<>>
              \/ SearchTermAppears(BroadcastRecord, clients[i].filters)]_vars

\* a viewer whose filter has the allow-list [API] and the search term "A"
\* has received the filtered event for an API entry with the message "a"
FilterIsConjunctionOfNonBlankWitness ==
  \E i \in 1..Len(clients), k \in 1..Len(emitted) :
    /\ clients[i].filters =
         [EmptyFilters EXCEPT !.categories = <<"API">>, !.search = <<"A">>]
    /\ emitted[k].event = "filtered_log"
    /\ clients[i].id \in emitted[k].recipients
    /\ IsObject(emitted[k].payload)
    /\ emitted[k].payload.category = "API"
    /\ emitted[k].payload.message = <<"a">>

\* C13: a connection starts with the empty filter, and a connection whose
\* filter is empty receives the filtered event of every broadcast of a
\* Record, whatever its category, level, source and message.
EmptyFilterMatchesAll ==
  [][/\ \A s \in Sockets :
          Connect(s) => clients'[Len(clients')] = [id |-> s,
                                                   filters |-> EmptyFilters,
                                                   subscriptions |-> {}]
     /\ BroadcastOfRecord =>
          \A i \in 1..Len(clients) :
            clients[i].filters = EmptyFilters => FilteredTo(clients[i].id)]_vars

\* a viewer that has not changed its filter has received the filtered
\* event for an entry with the default category and an empty message
EmptyFilterMatchesAllWitness ==
  \E i \in 1..Len(clients), k \in 1..Len(emitted) :
    /\ clients[i].filters = EmptyFilters
    /\ emitted[k].event = "filtered_log"
    /\ clients[i].id \in emitted[k].recipients
    /\ IsObject(emitted[k].payload)
    /\ emitted[k].payload.category = "GENERAL"
    /\ emitted[k].payload.message = <<>>

\* C14: update_filters replaces the stored filter of the connection by
\* the filter given, and changes no other connection's filter and no room
\* membership.
UpdateReplacesFilter ==
  [][\A s \in HubSockets, f \in FilterChoices :
       UpdateFilters(s, f) =>
         /\ Len(clients') = Len(clients)
         /\ \A i \in 1..Len(clients) :
              /\ clients'[i].id = clients[i].id
              /\ clients'[i].subscriptions = clients[i].subscriptions
              /\ clients'[i].filters =
                   IF clients[i].id = s THEN f ELSE clients[i].filters
         /\ rooms' = rooms]_vars

\* a viewer in a room has the filter of a search term alone, which it can
\* only have by an update, while the other viewer has an allow-list
UpdateReplacesFilterWitness ==
  \E i, j \in 1..Len(clients) :
    /\ i # j
    /\ clients[i].filters = [EmptyFilters EXCEPT !.search = <<"a">>]
    /\ clients[j].filters = [EmptyFilters EXCEPT !.categories = <<"API">>]
    /\ <<clients[i].id, <<"category", "GENERAL">> >> \in rooms

\* the broadcast of this step delivers the event named to socket s
RoomEventTo(event, s) ==
  \E k \in (Len(emitted) + 1)..Len(emitted') :
    /\ emitted'[k].event = event
    /\ emitted'[k].payload = BroadcastRecord
    /\ s \in emitted'[k].recipients

\* C15: subscribe_category puts the connection in the room of the
\* category and unsubscribe_category takes it out; on every broadcast of a
\* Record a connection receives the category_log event iff it is in the
\* room of the Record's category, whatever its filter.
RoomDeliveryIgnoresFilter ==
  [][/\ \A s \in HubSockets, c \in RoomCategories :
          /\ SubscribeCategory(s, c) => <<s, <<"category", c>> >> \in rooms'
          /\ UnsubscribeCategory(s, c)
               => <<s, <<"category", c>> >> \notin rooms'
     /\ BroadcastOfRecord =>
          \A s \in HubSockets :
            RoomEventTo("category_log", s) <=>
              /\ s \in sockets
              /\ <<s, <<"category", BroadcastRecord.category>> >> \in rooms
    ]_vars

\* a viewer whose filter admits only the category API has received the
\* category_log event of a GENERAL entry and no filtered_log event
RoomDeliveryIgnoresFilterWitness ==
  \E i \in 1..Len(clients), k \in 1..Len(emitted) :
    /\ clients[i].filters = [EmptyFilters EXCEPT !.categories = <<"API">>]
    /\ emitted[k].event = "category_log"
    /\ IsObject(emitted[k].payload)
    /\ emitted[k].payload.category = "GENERAL"
    /\ clients[i].id \in emitted[k].recipients
    /\ \A m \in 1..Len(emitted) :
         emitted[m].event = "filtered_log"
           => clients[i].id \notin emitted[m].recipients

\* C16: one broadcast of a Record emits new_log to all connections, which
\* every connected socket receives, then category_log to the room of the
\* category, then level_log to the room of the level, and after these only
\* filtered_log events, each to one connection alone.
BroadcastEmitOrder ==
  [][(/\ broadcastFor' # broadcastFor
      /\ Len(emitted') > Len(emitted)
      /\ IsObject(emitted'[Len(emitted')].payload)) =>
       LET first == Len(emitted) + 1
           r == emitted'[Len(emitted')].payload
       IN /\ Len(emitted') >= first + 2
          /\ emitted'[first].event = "new_log"
          /\ emitted'[first].target = <<"all", "">>
          /\ emitted'[first].payload = r
          /\ emitted'[first].recipients = sockets
          /\ emitted'[first + 1].event = "category_log"
          /\ emitted'[first + 1].target = <<"category", r.category>>
          /\ emitted'[first + 1].payload = r
          /\ emitted'[first + 2].event = "level_log"
          /\ emitted'[first + 2].target = <<"level", r.level>>
          /\ emitted'[first + 2].payload = r
          /\ \A k \in (first + 3)..Len(emitted') :
               /\ emitted'[k].event = "filtered_log"
               /\ emitted'[k].payload = r
               /\ \E s \in sockets : /\ emitted'[k].target = <<"socket", s>>
                                      /\ emitted'[k].recipients = {s}]_vars

\* one broadcast has reached two viewers with new_log, a viewer in the
\* room of the category with category_log, and then a viewer with
\* filtered_log
BroadcastEmitOrderWitness ==
  /\ Len(emitted) >= 4
  /\ emitted[1].event = "new_log"
  /\ emitted[1].recipients = HubSockets
  /\ emitted[2].event = "category_log" /\ emitted[2].recipients # {}
  /\ emitted[3].event = "level_log"
  /\ emitted[4].event = "filtered_log" /\ emitted[4].recipients # {}

\* C17: the disconnect of a connection removes its entry of clients, a
\* second disconnect of the same connection leaves the entries of clients
\* and the connected counter as the first left them, and no filtered_log
\* is emitted to a connection that has disconnected.
DisconnectIsIdempotent ==
  [][/\ \A s \in HubSockets :
          /\ Disconnect(s) => \A i \in 1..Len(clients') : clients'[i].id # s
          /\ RepeatedDisconnect(s) =>
               /\ clients' = clients
               /\ stats'.totalClients = stats.totalClients
     /\ \A s \in HubSockets \ sockets : ~FilteredTo(s)
    ]_vars

\* a step that answers socket s alone and leaves the hub, the storage and
\* the broadcast events as they were
AnswersOnly(s) ==
  /\ UNCHANGED <<hubVars, storeVars, emitted>>
  /\ \A x \in HubSockets \ {s} :
       /\ x \in DOMAIN replies' <=> x \in DOMAIN replies
       /\ x \in DOMAIN replies => replies'[x] = replies[x]

\* C18: request_recent sends its result, or its error event, to the
\* requesting socket alone; no other socket receives an event and no
\* client entry, room membership, counter or stored row changes.
RecentAnswersRequesterOnly ==
  [][/\ \A s \in HubSockets, options \in RecentOptions :
          RequestRecent(s, options) =>
            /\ AnswersOnly(s)
            /\ ~initialized =>
                 /\ s \in DOMAIN replies'
                 /\ replies'[s].event = "error"
     /\ \A q \in pendingQueries, err \in BOOLEAN :
          QueryDone(q, err) =>
            /\ AnswersOnly(q.socket)
            /\ q.open =>
                 /\ q.socket \in DOMAIN replies'
                 /\ replies'[q.socket].event =
                      IF err THEN "error" ELSE "recent_logs"
    ]_vars

\* one viewer has received the stored entries it asked for while the
\* other, connected as well, has received nothing
RecentAnswersRequesterOnlyWitness ==
  \E s \in sockets, x \in sockets :
    /\ s # x
    /\ s \in DOMAIN replies
    /\ replies[s].event = "recent_logs"
    /\ replies[s].count >= 1
    /\ x \notin DOMAIN replies

\* C19: while the storage is not initialized, store, query, getSummary and
\* getCategoryCounts fail with 'Log storage not initialized': the request
\* is answered with the error, no row, mirror line or pending INSERT is
\* added and nothing is broadcast, and the callers go on running.
NotInitializedIsContained ==
  [][~initialized =>
       /\ UNCHANGED <<logs, mirror, pendingStores, emitted, broadcastFor>>
       /\ \A body \in Bodies :
            PostLogs(body, PipeRecords) =>
              [id |-> nextId, status |-> 500] \in responses'
       /\ apiReply' # apiReply =>
            /\ apiReply'.status = 500
            /\ apiReply'.error = "Log storage not initialized"
    ]_vars

\* before the storage was initialized an entry was posted and the summary
\* was asked for: nothing is stored or broadcast, and afterwards the
\* storage has finished its setup
NotInitializedIsContainedWitness ==
  /\ initialized
  /\ logs = <<>> /\ emitted = <<>> /\ pendingStores = {}
  /\ \E r \in responses : r.status = 500
  /\ apiReply.op = "summary"
  /\ apiReply.error = "Log storage not initialized"

\* C20: the ids of the stored rows are pairwise distinct; the INSERT of an
\* entry whose id a row already has fails, leaves the rows as they are and
\* appends no mirror line.
StoredIdsAreUnique ==
  [][/\ \A i, j \in 1..Len(logs') : logs'[i].id = logs'[j].id => i = j
     /\ \A p \in pendingStores, err \in BOOLEAN, mirrorOk \in BOOLEAN :
          (InsertDone(p, err, mirrorOk) /\ p.entry.id \in StoredIds) =>
            /\ logs' = logs
            /\ mirror' = mirror
            /\ \E e \in storeErrors' : e.id = p.entry.id
    ]_vars

\* an entry was stored and mirrored, and a second entry with the same id
\* but another body was refused for its id: one row, one mirror line
StoredIdsAreUniqueWitness ==
  \E e \in storeErrors :
    /\ e.code = "SQLITE_CONSTRAINT"
    /\ e.id \in StoredIds
    /\ Len(logs) = 1 /\ Len(mirror) = 1
    /\ [id |-> e.id, status |-> 200] \in responses
    /\ [id |-> e.id, status |-> 500] \in responses
    /\ pendingStores = {}
    /\ nextId = 3

\* the filter of a query that names no column
NoFilter == [limit |-> 0, category |-> "", level |-> "", since |-> Null]

\* C21: when the INSERT succeeds, store() resolves and the row is there for
\* the next query whether or not the backup append succeeded; the backup
\* append is made only after a successful INSERT.
MirrorFailureIsContained ==
  [][\A p \in pendingStores, err \in BOOLEAN, mirrorOk \in BOOLEAN :
       InsertDone(p, err, mirrorOk) =>
         IF InsertFails(p.entry, err)
         THEN mirror' = mirror
         ELSE /\ logs' = Append(logs, StoreParams(p.entry))
              /\ [id |-> p.entry.id, status |-> 200] \in responses'
              /\ \E k \in 1..Len(Query(NoFilter)') :
                   Query(NoFilter)'[k].id = p.entry.id
              /\ Len(mirror') = Len(mirror) + (IF mirrorOk THEN 1 ELSE 0)
    ]_vars

\* an entry was stored while its backup append failed: the request was
\* answered with 200 and GET /api/logs returns the row
MirrorFailureIsContainedWitness ==
  /\ Len(logs) = 1
  /\ mirror = <<>>
  /\ [id |-> logs[1].id, status |-> 200] \in responses
  /\ apiReply.op = "logs" /\ apiReply.status = 200
  /\ Len(apiReply.body) = 1
  /\ apiReply.body[1].id = logs[1].id

\* the row a query returns has the fields of the entry handed to store
SameRecord(row, r) ==
  /\ row.id = r.id
  /\ row.timestamp = r.timestamp
  /\ row.level = r.level
  /\ row.category = r.category
  /\ row.message = r.message
  /\ row.data = r.data
  /\ row.source = r.source
  /\ row.environment = r.environment

\* C22: a query made after store(r) has succeeded returns a row equal to
\* r in id, timestamp, level, category, message, source and environment,
\* with data parsed back to what it was.
StoreQueryRoundTrip ==
  [][\A p \in pendingStores :
       (InsertDone(p, FALSE, TRUE) /\ ~InsertFails(p.entry, FALSE)) =>
         \E k \in 1..Len(Query(NoFilter)') :
           SameRecord(Query(NoFilter)'[k], p.entry)
    ]_vars

\* C23: a stored row is never changed or removed: every step leaves the
\* rows there are as they are and at most adds rows after them.
StorageIsAppendOnly ==
  [][/\ Len(logs') >= Len(logs)
     /\ \A i \in 1..Len(logs) : logs'[i] = logs[i]]_vars

\* two rows are stored, one from a watched file and one posted, the
\* counts per category have been read, a viewer has come and the watchers
\* are stopped
StorageIsAppendOnlyWitness ==
  /\ Len(logs) = 2
  /\ logs[1].environment # logs[2].environment
  /\ apiReply.op = "categories" /\ apiReply.status = 200
  /\ apiReply.body # {}
  /\ shuttingDown
  /\ DOMAIN welcome # {}

\* filters without limit and offset: none, each predicate alone, and two
\* together
QueryFilters ==
  {NoFilter,
   [NoFilter EXCEPT !.category = "API"],
   [NoFilter EXCEPT !.level = "ERROR"],
   [limit |-> 0, category |-> "", level |-> "", since |-> Null,
    source |-> "web"],
   [NoFilter EXCEPT !.since = IsoTime(2)],
   [limit |-> 0, category |-> "", level |-> "", since |-> Null,
    search |-> <<"b">>],
   [limit |-> 0, category |-> "", level |-> "", since |-> Null,
    search |-> <<"_">>],
   [limit |-> 0, category |-> "API", level |-> "", since |-> Null,
    search |-> <<"b">>]}

\* the row satisfies every predicate the filter supplies
Satisfies(row, f) ==
  /\ f.category # "" => row.category = f.category
  /\ f.level # "" => row.level = f.level
  /\ FilterField(f, "source", "") # "" => row.source = f.source
  /\ f.since # Null =>
       TimestampRank(row.timestamp) >= TimestampRank(f.since)
  /\ FilterField(f, "search", <<>>) # <<>> =>
       SearchHitsLiteral(row, f.search)

\* C24: without limit and offset, query(filter) returns exactly the stored
\* rows that satisfy every predicate supplied (category, level, source
\* equal, timestamp >= since, search term part of the message or of the
\* serialized data); the empty filter returns every row.
QueryIsConjunction ==
  \A f \in QueryFilters :
    /\ {Query(f)[k].id : k \in 1..Len(Query(f))}
         = {logs[i].id : i \in {j \in 1..Len(logs) : Satisfies(logs[j], f)}}
    /\ Len(Query(f))
         = Cardinality({j \in 1..Len(logs) : Satisfies(logs[j], f)})

\* the filter that asks for n rows after the first k
Page(n, k) ==
  [limit |-> n, offset |-> k, category |-> "", level |-> "", since |-> Null]

\* the rows are in descending order of their timestamp column
Descending(rows) ==
  \A i \in 1..(Len(rows) - 1) :
    TimestampRank(rows[i].timestamp) >= TimestampRank(rows[i + 1].timestamp)

\* the n rows that follow the first k of rows
RowsAfter(rows, n, k) ==
  SubSeq(rows, Min(k, Len(rows)) + 1, Min(k + n, Len(rows)))

\* the result of a query is in descending order, and with limit n and
\* offset k it is the n rows that follow the first k, never more than n
PagedFrom(lowest) ==
  /\ Descending(Query(NoFilter))
  /\ \A n \in lowest..MaxPage, k \in 0..MaxPage :
       ~QueryFails(Page(n, k)) =>
         /\ Descending(Query(Page(n, k)))
         /\ Query(Page(n, k)) = RowsAfter(Query(NoFilter), n, k)
         /\ Len(Query(Page(n, k))) <= n

CountFirst(m, category, level) ==
  Cardinality({i \in 1..m :
                 /\ category # "" => logs[i].category = category
                 /\ level # "" => logs[i].level = level})

\* top lists the most frequent categories of the first m rows, ten at
\* most, each with its count, in descending order of count
TopOfFirst(top, m) ==
  LET categories == {logs[i].category : i \in 1..m}
  IN /\ Len(top) = Min(10, Cardinality(categories))
     /\ \A i \in 1..Len(top) :
          /\ top[i].category \in categories
          /\ top[i].count = CountFirst(m, top[i].category, "")
          /\ \A j \in 1..Len(top) :
               /\ i < j => top[i].count >= top[j].count
               /\ i # j => top[i].category # top[j].category
          /\ \A c \in categories \ {top[j].category : j \in 1..Len(top)} :
               CountFirst(m, c, "") <= top[i].count

\* the number of the first m rows whose date is that of the clock
\* reading now
TodayOfFirst(m, now) ==
  Cardinality({i \in 1..m :
                 DateOf(logs[i].timestamp) = DateOf(IsoTime(now))})

\* C26: getSummary takes its five results by five SELECTs run one after
\* the other, and each result is exact for the rows stored when its
\* SELECT runs: the number of rows, of ERROR rows, of WARN rows, of rows
\* of the current date, then the ten most frequent categories at most
\* with their counts in descending order; the answer holds the five
\* results, so that they are the counts of the same rows when no row is
\* stored during the call.
SummaryCountsAtEachQuery ==
  [][\A later \in {0, DayLength} :
       SummaryQueryDone(FALSE, nextId + later) =>
         LET step == pendingSummary.step
             m == Len(logs)
             kept == pendingSummary'
         IN /\ step = 0 => kept.total = m
            /\ step = 1 => kept.errors = CountFirst(m, "", "ERROR")
            /\ step = 2 => kept.warnings = CountFirst(m, "", "WARN")
            /\ step = 3 => kept.today = TodayOfFirst(m, nextId + later)
            /\ step \in 1..3 => kept.total = pendingSummary.total
            /\ step \in 2..3 => kept.errors = pendingSummary.errors
            /\ step = 3 => kept.warnings = pendingSummary.warnings
            /\ step = 4 =>
                 /\ apiReply'.status = 200
                 /\ apiReply'.body.total = pendingSummary.total
                 /\ apiReply'.body.errors = pendingSummary.errors
                 /\ apiReply'.body.warnings = pendingSummary.warnings
                 /\ apiReply'.body.today = pendingSummary.today
                 /\ TopOfFirst(apiReply'.body.topCategories, m)
    ]_vars

\* an ERROR, a WARN and an INFO row of today are all that is stored and
\* the summary answers 3, 1, 1 and 3
SummaryCountsAtEachQueryWitness ==
  /\ Len(logs) = 3
  /\ {logs[i].level : i \in 1..3} = {"ERROR", "WARN", "INFO"}
  /\ apiReply.op = "summary" /\ apiReply.status = 200
  /\ apiReply.body.total = 3 /\ apiReply.body.errors = 1
  /\ apiReply.body.warnings = 1 /\ apiReply.body.today = 3
  /\ Len(apiReply.body.topCategories) = 1

\* the entries made from the line that was handed to the parser as the
\* k-th, in runs where the parser alone draws ids: those whose INSERT is
\* under way
EntriesOfLine(k) == {p.entry : p \in {q \in pendingStores : q.entry.id = k}}

\* the rows stored for the k-th line
RowsOfLine(k) == {logs[i] : i \in {j \in 1..Len(logs) : logs[j].id = k}}

\* the documents the line holds once the white space around it is skipped
DocumentsOf(line) == {d \in JsonDocuments : d.text = Trim(line)}

\* the first character of the line that is not white space is "{"
OpensObject(line) == Trim(line) # <<>> /\ Trim(line)[1] = "{"

\* the fields of the entry are those of the document d of the line
FromObject(entry, d, line) ==
  /\ d.timestamp # Null => entry.timestamp = d.timestamp
  /\ d.timestamp = Null => entry.timestamp.type = "iso"
  /\ entry.level = (IF d.level # "" THEN d.level ELSE "INFO")
  /\ entry.category = (IF d.category # "" THEN d.category ELSE "SYSTEM")
  /\ entry.message = (IF d.message # <<>> THEN d.message
                      ELSE IF d.msg # <<>> THEN d.msg ELSE line)
  /\ entry.data = d.data
  /\ entry.environment = "production"

\* the row holds the level, category, message and environment of the
\* document d of the line, and a payload when the document has one
RowFromObject(row, d, line) ==
  /\ row.level = (IF d.level # "" THEN d.level ELSE "INFO")
  /\ row.category = (IF d.category # "" THEN d.category ELSE "SYSTEM")
  /\ row.message = (IF d.message # <<>> THEN d.message
                    ELSE IF d.msg # <<>> THEN d.msg ELSE line)
  /\ (row.data = Null) = (d.data = Null)
  /\ row.environment = "production"

\* C27: a line whose first character that is not white space is "{" and
\* which is a JSON object gives a Record with the timestamp, level,
\* category, message and data of the object (the defaults for the fields
\* it lacks, the message being msg and then the line itself) and the
\* environment production; a line that opens like an object and is not
\* JSON gives the Record of the bracket patterns, with no payload.
ParserPrecedence ==
  \A k \in 1..Len(handed) :
    LET line == handed[k].line
    IN OpensObject(line) =>
         /\ \A d \in DocumentsOf(line) :
              /\ \A entry \in EntriesOfLine(k) : FromObject(entry, d, line)
              /\ \A row \in RowsOfLine(k) : RowFromObject(row, d, line)
         /\ DocumentsOf(line) = {} =>
              \A entry \in EntriesOfLine(k) :
                /\ entry.message = line
                /\ entry.level = "INFO"
                /\ entry.data = Null
                /\ entry.environment = "production"

\* the line is parsed by the bracket patterns: it is no JSON object
\* that begins the line
PatternParsed(line) == ~(StartsWith(line, <<"{">>) /\ DocumentsOf(line) # {})

\* the text holds the word, whatever the case of its letters
HasWord(text, word) ==
  \E i \in 1..Len(text) :
    /\ i + Len(word) - 1 <= Len(text)
    /\ \A j \in 1..Len(word) : LowerChar(text[i + j - 1]) = word[j]

ErrorInApiRequest ==
  <<"e", "r", "r", "o", "r", " ", "i", "n", " ", "a", "p", "i", " ", "r",
    "e", "q", "u", "e", "s", "t">>
RandomUnstructuredText ==
  <<"r", "a", "n", "d", "o", "m", " ", "u", "n", "s", "t", "r", "u", "c",
    "t", "u", "r", "e", "d", " ", "t", "e", "x", "t">>

\* the category the ordered rules give a message of a level
RuleCategory(message, level) ==
  CASE HasWord(message, <<"e","r","r","o","r">>) \/ level = "ERROR" -> "ERROR"
    [] OTHER ->
  CASE HasWord(message, <<"a","u","t","h">>)
         \/ HasWord(message, <<"l","o","g","i","n">>) -> "AUTH"
    [] OTHER ->
  CASE HasWord(message, <<"a","p","i">>)
         \/ HasWord(message, <<"r","e","q","u","e","s","t">>) -> "API"
    [] OTHER ->
  CASE HasWord(message, <<"d","a","t","a","b","a","s","e">>)
         \/ HasWord(message, <<"d","b">>) -> "DATABASE"
    [] OTHER -> "SYSTEM"

\* C28: the category of a Record parsed by the bracket patterns is that
\* of the first rule that matches, the words being looked for in the
\* message whatever their case: error, or the level ERROR, gives ERROR;
\* else auth or login gives AUTH; else api or request gives API; else
\* database or db gives DATABASE; else SYSTEM.  "error in api request"
\* is ERROR and "random unstructured text" is SYSTEM with the level INFO.
CategoryInference ==
  \A k \in 1..Len(handed) :
    LET line == handed[k].line
    IN PatternParsed(line) =>
         /\ \A entry \in EntriesOfLine(k) :
              /\ entry.category = RuleCategory(entry.message, entry.level)
              /\ line = ErrorInApiRequest => entry.category = "ERROR"
              /\ line = RandomUnstructuredText =>
                   entry.category = "SYSTEM" /\ entry.level = "INFO"
         /\ \A row \in RowsOfLine(k) :
              /\ row.category = RuleCategory(row.message, row.level)
              /\ line = ErrorInApiRequest => row.category = "ERROR"
              /\ line = RandomUnstructuredText =>
                   row.category = "SYSTEM" /\ row.level = "INFO"

\* the line "error in api request" is stored with the category ERROR
CategoryInferenceWitness ==
  \E k \in 1..Len(handed) :
    /\ handed[k].line = ErrorInApiRequest
    /\ \E row \in RowsOfLine(k) : row.category = "ERROR" /\ row.level = "INFO"

\* the Records that have gone through the pipeline: the rows stored and
\* the entries broadcast to viewers
PipelineRecords ==
  {logs[i] : i \in 1..Len(logs)}
    \cup {emitted[i].payload :
            i \in {j \in 1..Len(emitted) : emitted[j].payload.type = "object"}}

RecordLevels == {"DEBUG", "INFO", "WARN", "ERROR", "FATAL"}

\* C29: every Record made by the parser from a line or by POST /api/logs
\* from a body, and stored or broadcast, has one of the levels DEBUG, INFO,
\* WARN, ERROR and FATAL.
LevelIsOneOfFive ==
  \A r \in PipelineRecords : r.level \in RecordLevels

\* C30: every Record that is stored or broadcast has a message that is
\* not empty, whatever the line or the body it was made from.
MessageIsNotEmpty ==
  \A r \in PipelineRecords : r.message # <<>>

\* C31: a store that fails reaches the requester of the operation as a
\* failed result on both paths that call store: the failure store() has
\* logged for an entry is answered to the one that submitted the entry
\* (for POST /api/logs the status 500), and the entry is not stored by a
\* retry.
StoreFailureReachesRequester ==
  \A e \in storeErrors :
    /\ [id |-> e.id, status |-> 500] \in responses
    /\ e.id \notin StoredIds

RECURSIVE SumOfCounts(_)
SumOfCounts(top) ==
  IF top = <<>> THEN 0 ELSE top[1].count + SumOfCounts(Tail(top))

\* C39: the summary that is answered is consistent although entries are
\* stored between its SELECTs: errors + warnings <= total, today <= total
\* and, when ten categories at most exist, the counts of the categories
\* add up to total at most.
SummaryIsConsistent ==
  (apiReply.op = "summary" /\ apiReply.status = 200) =>
    LET summary == apiReply.body
    IN /\ summary.errors + summary.warnings <= summary.total
       /\ summary.today <= summary.total
       /\ Cardinality({logs[i].category : i \in 1..Len(logs)}) <= 10 =>
            SumOfCounts(summary.topCategories) <= summary.total

\* C36: the paths that have an offset are the paths that have a watcher:
\* no offset for a path that is not watched, no watcher without an offset.
OffsetsAreOfWatchedPaths == DOMAIN filePositions = fileWatchers

\* C38: the Records of the lines of one file are stored, and with that
\* handed to the hub, in the order of the lines: in runs where the parser
\* alone draws ids, the Record of the line handed as the k-th has the id
\* k, and the rows are in the order of their ids.
StoredInLineOrder ==
  \A i, j \in 1..Len(logs) : i < j => logs[i].id < logs[j].id

\* C32: on shutdown the file watchers are stopped before the storage
\* handle is closed, and the storage handle is closed before the process
\* exits.
ShutdownOrder ==
  /\ dbState # "open" => fileWatchers = {} /\ \A m \in monitors : m.closed
  /\ exited => dbState = "closed"

\* C33: a read that is under way when watching is stopped completes and
\* delivers its Records, also when the stop is part of the shutdown: once
\* watching has been stopped, the INSERT of an entry of the file path
\* that meets no database error stores the entry and hands it to the
\* hub, and the process does not exit while a read stream is open or an
\* INSERT is under way.
InFlightReadDelivers ==
  [][/\ \A p \in pendingStores :
          (shuttingDown /\ p.via = "file" /\ InsertDone(p, FALSE, TRUE)) =>
            /\ p.entry.id \in StoredIds'
            /\ p.entry.id \in broadcastFor'
     /\ (~exited /\ exited') =>
          /\ \A f \in Paths : streams[f] = <<>>
          /\ pendingStores = {}
    ]_vars

\* C34: the counter of connected clients that getStats() reports is the
\* number of entries of the clients Map, whatever connects, disconnects
\* (also twice for one socket) and destroys came before.
ConnectedCounterIsClientCount == stats.totalClients = Len(clients)

\* C35: the filters are evaluated for each connection by itself: in one
\* broadcast, every connection whose filter admits what is broadcast gets
\* the filtered event and the counter of messages sent goes up by one,
\* also when the evaluation of another connection's filter raises an
\* error.
FilterEvaluationIsIsolated ==
  [][(broadcastFor' # broadcastFor /\ Len(emitted') > Len(emitted)) =>
       LET broadcast == emitted'[Len(emitted) + 1].payload
           new == {emitted'[k] : k \in (Len(emitted) + 1)..Len(emitted')}
       IN /\ stats'.messagesSent = stats.messagesSent + 1
          /\ \A i \in 1..Len(clients) :
               ShouldSendToClient(broadcast, clients[i]) = "true" =>
                 \E e \in new :
                   /\ e.event = "filtered_log"
                   /\ e.target = <<"socket", clients[i].id>>
    ]_vars

\* C37: when stopFileWatching returns, every watcher that
\* startFileWatching has ever created is closed, so that no change of a
\* file is processed afterwards, whatever calls of startFileWatching
\* came before.
StopReleasesEveryWatcher ==
  [][StopFileWatching =>
       /\ \A m \in monitors' : m.closed
       /\ \A f \in Paths : ~Notifies(f)'
    ]_vars

====
